---- MODULE Spec2Model ----
(***************************************************************************)
(* Multi-identifier rate limiter of the chat backend                       *)
(* (src/utils/rateLimiter.js, first RateLimiter class, lines 1-478) and    *)
(* the POST /chat request flow that drives it (src/unnamed/part_001).      *)
(*                                                                         *)
(* Time is an integer clock.  An hour is HourLen ticks and a day is        *)
(* HoursPerDay hours; the limits are scaled down from 200 per day and 50   *)
(* per hour, keeping the hourly limit below the daily one.                 *)
(***************************************************************************)
EXTENDS Integers, Sequences, FiniteSets, TLC, Bags

\* ---------------------------------------------------------------- bounds
\* ticks per hour (60 * 60 * 1000 ms in the source)
HourLen == 2
\* hours per day (24 in the source)
HoursPerDay == 2
\* last clock value explored
MaxTime == 5
\* daily limit (200 in the source), scaled
MAX_MESSAGES_PER_DAY == 3
\* hourly limit (50 in the source), scaled
MAX_MESSAGES_PER_HOUR == 2

DayLen == HourLen * HoursPerDay

\* ------------------------------------------------------------ identifiers
NoKey == "none"
IPs == {"ip1"}
Tokens == {"t1"}
Fingerprints == {"f1"}
Procs == {"p1", "p2"}

\* A token or fingerprint may be absent from a request.
OptionalTokens == {"none", "t1"}
OptionalFingerprints == {"none", "f1"}

\* The identifier types, and the (type, key) pairs a rate-limit record can be
\* stored under.
IdTypes == {"fingerprint", "ip", "userToken"}
AllIds ==
  {<<"ip", "ip1">>, <<"ip", "ip2">>, <<"userToken", "t1">>, <<"fingerprint", "f1">>}

\* Mutant: a request that carries a token is limited by its token and
\* fingerprint only.
IdentifiersTokenFirst(ip, userToken, fingerprint) ==
  SelectSeq(<< <<"ip", IF userToken # NoKey THEN NoKey ELSE ip>>,
               <<"userToken", userToken>>, <<"fingerprint", fingerprint>> >>,
            LAMBDA id : id[2] # NoKey)

\* [ip, userToken, fingerprint].filter(id => id.key)
Identifiers(ip, userToken, fingerprint) ==
  SelectSeq(<< <<"ip", ip>>, <<"userToken", userToken>>, <<"fingerprint", fingerprint>> >>,
            LAMBDA id : id[2] # NoKey)

\* ------------------------------------------------------------ fingerprint
\* A field of userInfo: a string (a sequence of characters), or undefined/null.
Absent == [has |-> FALSE, str |-> << >>]

Str(s) == [has |-> TRUE, str |-> s]

\* geoip.lookup found nothing: userInfo.geolocation is null.
NoGeo == [has |-> FALSE, country |-> Absent, city |-> Absent]

\* userInfo itself missing (null).
NoInfo ==
  [has |-> FALSE,
   browser |-> [name |-> Absent, version |-> Absent, os |-> Absent],
   geolocation |-> NoGeo]

\* null, as generateFingerprint returns it.
Null == [done |-> TRUE, null |-> TRUE, md5 |-> << >>]

\* The calls of generateFingerprint observed.
FpCalls == {1, 2}

\* The call has not returned yet.
NotRun == [done |-> FALSE, null |-> FALSE, md5 |-> << >>]

\* A geolocation with country and city.
Geo(country, city) == [has |-> TRUE, country |-> country, city |-> city]

Geolocations ==
  {NoGeo, Geo(Absent, Absent), Geo(Str(<<"d">>), Absent),
   Geo(Absent, Str(<<"e">>)), Geo(Str(<<"d">>), Str(<<"e">>))}

\* The userInfo objects told apart: a browser with name, version and os, and
\* a geolocation (or none).
PresentInfos ==
  [has : {TRUE},
   browser : [name : {Absent, Str(<<"a">>), Str(<<"a", "b">>)},
              version : {Absent, Str(<<"b">>)},
              os : {Absent, Str(<<"c">>)}],
   geolocation : Geolocations]

\* x || ''
OrEmpty(x) == IF x.has THEN x.str ELSE << >>

\* userInfo.geolocation?.country || '' (and city)
GeoField(u, f) == IF u.geolocation.has THEN OrEmpty(u.geolocation[f]) ELSE << >>

\* The string the digest is taken of.
FingerprintInput(u) ==
  OrEmpty(u.browser.name) \o OrEmpty(u.browser.version) \o OrEmpty(u.browser.os)
    \o GeoField(u, "country") \o GeoField(u, "city")

\* crypto.createHash('md5').update(s).digest('hex'): a digest, different for
\* different strings here, and never null.
Md5(s) == [done |-> TRUE, null |-> FALSE, md5 |-> s]

generateFingerprint(userInfo) ==
  IF ~userInfo.has THEN Null ELSE Md5(FingerprintInput(userInfo))

\* ------------------------------------------------------------------ clock
\* today.setHours(0,0,0,0); tomorrow = today + 1 day
Tomorrow(t) == ((t \div DayLen) + 1) * DayLen

\* durable store: nextHour.setHours(nextHour.getHours() + 1, 0, 0, 0)
NextHourDurable(t) == ((t \div HourLen) + 1) * HourLen

\* fallback store: nextHour = now + 60 * 60 * 1000
NextHourFallback(t) == t + HourLen

NextHour(tier, t) == IF tier = "db" THEN NextHourDurable(t) ELSE NextHourFallback(t)

\* ---------------------------------------------------------------- records
NoDoc ==
  [exists |-> FALSE, dailyCount |-> 0, hourlyCount |-> 0,
   dailyResetTime |-> 0, hourlyResetTime |-> 0]

\* Mutant: a record the check creates already counts the request.
NewDocCounted(tier, t) ==
  [exists |-> TRUE, dailyCount |-> 1, hourlyCount |-> 1,
   dailyResetTime |-> Tomorrow(t), hourlyResetTime |-> NextHour(tier, t)]

\* The record a check creates for an identifier it has not seen.
NewDoc(tier, t) ==
  [exists |-> TRUE, dailyCount |-> 0, hourlyCount |-> 0,
   dailyResetTime |-> Tomorrow(t), hourlyResetTime |-> NextHour(tier, t)]

\* findOneAndUpdate(..., {$setOnInsert: {...counts 0...}}, {upsert, new}) of the
\* durable check, and the "if (!data)" branch of the fallback.
FetchOrCreate(doc, tier, t) == IF doc.exists THEN doc ELSE NewDoc(tier, t)

\* result.dailyResetTime < now
ShouldResetDaily(doc, t) == doc.dailyResetTime < t

\* Mutant: the hourly window is reset one hour after its reset time.
ShouldResetHourlyLate(doc, t) == doc.hourlyResetTime + HourLen < t

\* result.hourlyResetTime < now
ShouldResetHourly(doc, t) == doc.hourlyResetTime < t

\* Mutant: an expired window resets both windows.
ApplyResetBoth(stored, seen, tier, t) ==
  IF ShouldResetDaily(seen, t) \/ ShouldResetHourly(seen, t)
  THEN [stored EXCEPT !.dailyCount = 0, !.dailyResetTime = Tomorrow(t),
                      !.hourlyCount = 0, !.hourlyResetTime = NextHour(tier, t)]
  ELSE stored

\* The fields a reset writes, applied to the record as it is stored now; seen is
\* the record the caller read when it decided to reset.
ApplyReset(stored, seen, tier, t) ==
  [stored EXCEPT
     !.dailyCount = IF ShouldResetDaily(seen, t) THEN 0 ELSE @,
     !.dailyResetTime = IF ShouldResetDaily(seen, t) THEN Tomorrow(t) ELSE @,
     !.hourlyCount = IF ShouldResetHourly(seen, t) THEN 0 ELSE @,
     !.hourlyResetTime = IF ShouldResetHourly(seen, t) THEN NextHour(tier, t) ELSE @]

\* Mutant: a count already at the hourly limit is not incremented further.
IncDurableCapped(doc, t) ==
  IF doc.exists
  THEN [doc EXCEPT !.dailyCount = IF @ >= MAX_MESSAGES_PER_HOUR THEN @ ELSE @ + 1,
                   !.hourlyCount = IF @ >= MAX_MESSAGES_PER_HOUR THEN @ ELSE @ + 1]
  ELSE [exists |-> TRUE, dailyCount |-> 1, hourlyCount |-> 1,
        dailyResetTime |-> Tomorrow(t), hourlyResetTime |-> NextHourDurable(t)]

\* Durable increment: findOneAndUpdate with $inc and $setOnInsert of the reset
\* times only; no reset check.
IncDurable(doc, t) ==
  IF doc.exists
  THEN [doc EXCEPT !.dailyCount = @ + 1, !.hourlyCount = @ + 1]
  ELSE [exists |-> TRUE, dailyCount |-> 1, hourlyCount |-> 1,
        dailyResetTime |-> Tomorrow(t), hourlyResetTime |-> NextHourDurable(t)]

\* Fallback increment: create if missing, reset if needed, then count++.
IncFallback(doc, t) ==
  LET d0 == FetchOrCreate(doc, "mem", t)
      d1 == ApplyReset(d0, d0, "mem", t)
  IN  [d1 EXCEPT !.dailyCount = @ + 1, !.hourlyCount = @ + 1]

Max(a, b) == IF a > b THEN a ELSE b

\* Mutant: the daily limit is tested with a strict comparison.
DailyExceededStrict(count) == count > MAX_MESSAGES_PER_DAY

\* data.dailyCount >= this.MAX_MESSAGES_PER_DAY
DailyExceeded(count) == count >= MAX_MESSAGES_PER_DAY

\* data.hourlyCount >= this.MAX_MESSAGES_PER_HOUR
HourlyExceeded(count) == count >= MAX_MESSAGES_PER_HOUR

\* Which limit, if any, the evaluated record violates (daily is tested first).
LimitOf(doc) ==
  IF DailyExceeded(doc.dailyCount) THEN "daily"
  ELSE IF HourlyExceeded(doc.hourlyCount) THEN "hourly"
  ELSE "none"

\* ------------------------------------------------------------------ profile fields
\* Strings are sequences of one-character strings.
Space == " "

\* Number of days the clock of the field updates runs over.
MaxDay == 1

\* Number of updateUserDetails calls looked at.
MaxCalls == 3

RECURSIVE TrimStart(_)
TrimStart(s) == IF s # << >> /\ Head(s) = Space THEN TrimStart(Tail(s)) ELSE s

RECURSIVE TrimEnd(_)
TrimEnd(s) ==
  IF s # << >> /\ s[Len(s)] = Space THEN TrimEnd(SubSeq(s, 1, Len(s) - 1)) ELSE s

\* String.prototype.trim
Trim(s) == TrimEnd(TrimStart(s))

LowerChar(c) == IF c = "A" THEN "a" ELSE IF c = "B" THEN "b" ELSE c

\* String.prototype.toLowerCase
ToLowerCase(s) == [i \in 1..Len(s) |-> LowerChar(s[i])]

\* String.prototype.includes
Includes(hay, needle) ==
  \E i \in 0..(Len(hay) - Len(needle)) : SubSeq(hay, i + 1, i + Len(needle)) = needle

\* new Date().toISOString().split('T')[0] on the given day.
DateNames == <<"2025-01-01", "2025-01-02", "2025-01-03", "2025-01-04">>
DateStamp(day) == <<DateNames[day + 1]>>

\* The note appended for one call: `[${timestamp}] ${notes.trim()}`.
NewNote(notes, day) == <<"[">> \o DateStamp(day) \o <<"]", Space>> \o Trim(notes)

\* The email, name and notes of a profile; an unset field is the empty string,
\* which every test in updateUserDetails treats as it treats undefined.
NoDetails == [email |-> << >>, name |-> << >>, notes |-> << >>]

SetEmail(d, email) ==
  IF email # << >> /\ Trim(email) # << >> /\ email # d.email
  THEN [d EXCEPT !.email = ToLowerCase(Trim(email))]
  ELSE d

\* A change of SetName: a new name starts a new contact and drops the email.
SetNameDropsEmail(d, name) ==
  IF name # << >> /\ Trim(name) # << >> /\ name # d.name
  THEN [d EXCEPT !.name = Trim(name), !.email = << >>]
  ELSE d

SetName(d, name) ==
  IF name # << >> /\ Trim(name) # << >> /\ name # d.name
  THEN [d EXCEPT !.name = Trim(name)]
  ELSE d

SetNotes(d, notes, day) ==
  IF notes # << >> /\ Trim(notes) # << >>
  THEN IF d.notes # << >>
       THEN IF ~Includes(d.notes, NewNote(notes, day))
            THEN [d EXCEPT !.notes = d.notes \o <<"\n">> \o NewNote(notes, day)]
            ELSE d
       ELSE [d EXCEPT !.notes = NewNote(notes, day)]
  ELSE d

\* UserSchema.methods.updateUserDetails on the fields d, called on the given day.
updateUserDetails(d, email, name, notes, day) ==
  SetNotes(SetName(SetEmail(d, email), name), notes, day)

\* Arguments of the calls looked at.
EmailArgs == {<< >>, <<"a", "@", "b", ".", "c">>, <<Space, "A", "@", "b", ".", "c">>}
NameArgs == {<< >>, <<"n">>, <<"n", Space>>}
NotesArgs == {<< >>, <<"x">>, <<"x", "y">>}

NoArgs == [called |-> FALSE, email |-> << >>, name |-> << >>, notes |-> << >>, day |-> 0]

\* ------------------------------------------------------------------ profiles
\* Tokens the clients send to /chat/init and /chat.
ProfileTokens == {"t1", "t2"}
OptionalProfileTokens == {"none", "t1", "t2"}

\* Tokens crypto.randomBytes(32) can produce.
MintedTokens == {"m1", "m2"}

\* Network addresses and user agents of the clients.
ClientIPs == {<<"i">>}
UserAgents == {<<"u">>}

\* Number of requests to /chat/init and /chat looked at.
MaxOps == 3

\* Last value of the clock while profiles are looked at.
MaxClock == 1

\* Number.prototype.toString of a clock value.
Digits == <<"0", "1", "2", "3", "4", "5", "6", "7", "8", "9">>
NumberToString(t) == <<Digits[t + 1]>>

\* RateLimiter.generateSessionId at clock value t.
generateSessionId(ip, userAgent, t) == Md5(ip \o userAgent \o NumberToString(t)).md5

\* A session id no /chat/init has handed out.
ForeignSession == <<"z">>

NoUser == [token |-> NoKey, lastSeenIP |-> << >>, sessions |-> << >>, totalMessages |-> 0]

\* A change of NewUser: the profile is created without the token.
NewUserNoToken(token, ip) == [NoUser EXCEPT !.lastSeenIP = ip]

\* new this({ token, userInfo }) with the schema's defaults.
NewUser(token, ip) == [NoUser EXCEPT !.token = token, !.lastSeenIP = ip]

\* The subdocument addSession pushes.
NewSession(sessionId) == [sessionId |-> sessionId, messageCount |-> 0]

\* Positions of the documents that match { token }.
Matching(us, token) == {i \in 1..Len(us) : us[i].token = token}

\* findOne({ token }): position of the first match, 0 for null.
findOne(us, token) ==
  IF Matching(us, token) = {} THEN 0
  ELSE CHOOSE i \in Matching(us, token) : \A j \in Matching(us, token) : i <= j

\* A change of DuplicateKey: the collection has no unique index on token.
DuplicateKeyNoIndex(us, token) == FALSE

\* The unique index on token rejects the insert (error code 11000).
DuplicateKey(us, token) == Matching(us, token) # {}

\* this.sessions.find(s => s.sessionId === sessionId): position, 0 for undefined.
FindSession(doc, sessionId) ==
  LET m == {j \in 1..Len(doc.sessions) : doc.sessions[j].sessionId = sessionId}
  IN  IF m = {} THEN 0 ELSE CHOOSE j \in m : \A k \in m : j <= k

\* All session ids attached to some profile.
SessionIds(us) ==
  UNION {{us[i].sessions[j].sessionId : j \in 1..Len(us[i].sessions)} : i \in 1..Len(us)}

IdleCall ==
  [pc |-> "idle", op |-> "none", token |-> NoKey, ip |-> << >>, userAgent |-> << >>,
   sessionId |-> << >>, id |-> 0, doc |-> NoUser, isNew |-> FALSE, conflict |-> FALSE,
   push |-> FALSE, status |-> 0]

\* ------------------------------------------------------------- request body
\* Values of req.body.message and req.body.sessionId: undefined, a number, or
\* a string.
Undefined == [type |-> "undefined", num |-> 0, str |-> << >>]

Num(n) == [type |-> "number", num |-> n, str |-> << >>]

Text(s) == [type |-> "string", num |-> 0, str |-> s]

\* !v
Falsy(v) ==
  \/ v.type = "undefined"
  \/ v.type = "number" /\ v.num = 0
  \/ v.type = "string" /\ v.str = << >>

\* Longest message accepted (1000 characters in the source), scaled.
MAX_MESSAGE_LENGTH == 3

\* A change of MessageError: the length of the message is not tested.
MessageErrorNoLength(message) ==
  IF Falsy(message) \/ message.type # "string" \/ Len(Trim(message.str)) = 0
  THEN "message_required"
  ELSE "none"

\* The two tests of the message: !message || typeof message !== 'string' ||
\* message.trim().length === 0, then message.length > 1000.
MessageError(message) ==
  IF Falsy(message) \/ message.type # "string" \/ Len(Trim(message.str)) = 0
  THEN "message_required"
  ELSE IF Len(message.str) > MAX_MESSAGE_LENGTH THEN "message_too_long"
  ELSE "none"

\* The input validation of POST /chat: the error answered with status 400, or
\* "none".
InputError(message, sessionId) ==
  IF MessageError(message) # "none" THEN MessageError(message)
  ELSE IF Falsy(sessionId) THEN "session_required"
  ELSE "none"

\* The messages sent: none, a number, the empty string, a blank, one that
\* passes, and two that are too long (one of them blank).
Messages ==
  {Undefined, Num(7), Text(<< >>), Text(<<" ">>),
   Text(<<"h", " ", "i">>), Text(<<"h", "e", "l", "l", "o">>),
   Text(<<" ", " ", " ", " ", " ">>)}

\* ------------------------------------------------------------------ quota cache
\* Network addresses of the callers of the cached check; the caller at ip1
\* has a device fingerprint, the one at ip2 has none.
CacheIPs == {"ip1", "ip2"}

FingerprintAt(ip) == IF ip = "ip1" THEN "f1" ELSE "none"

\* The cache is keyed by (network address, token).
CacheKeys == {<<"ip1", "none">>, <<"ip1", "t1">>, <<"ip2", "none">>, <<"ip2", "t1">>}

\* Time-to-live of an entry, in ticks (a few seconds in the design).
CacheTtl == 1

\* Two keys overlap when they share the network address (and with it the
\* fingerprint) or the token.
Overlap(k1, k2) == k1[1] = k2[1] \/ (k1[2] # "none" /\ k1[2] = k2[2])

\* ------------------------------------------------------------------ state
VARIABLES
  now,            \* the clock (Date.now())
  dbReady,        \* database.isConnectionReady()
  durable,        \* the RateLimit collection: AllIds -> record
  fallbackStore,  \* RateLimiter.fallbackStore: AllIds -> record
  req,            \* per request slot: the POST /chat handler's position and locals
  reqNo,          \* number of counted chat requests started so far (saturating)
  anyDenied,      \* a counted chat request has been answered 429
  fpArgs,         \* generateFingerprint: the userInfo arguments of two calls
  fpResult,       \* generateFingerprint: what the two calls returned
  udDoc,          \* updateUserDetails: email, name and notes of the profile
  udLast,         \* updateUserDetails: the arguments of the latest call
  udDay,          \* updateUserDetails: the day the clock shows
  udCalls,        \* updateUserDetails: number of calls made
  users,          \* the users collection, in insertion order
  ucall,          \* per request slot: the handler's position in its user operations
  uops,           \* number of /chat/init and /chat requests started
  chats,          \* the chats collection: number of transcript entries saved
  cache,          \* the quota cache: (network address, token) -> memoized check
  database        \* the Database singleton, its connect calls in flight and retry timers

limiterVars == <<now, dbReady, durable, fallbackStore, req, reqNo, anyDenied>>

fpVars == <<fpArgs, fpResult>>

detailVars == <<udDoc, udLast, udDay, udCalls>>

\* The state outside the rate limiter and the chat handler.
userVars == <<users, ucall, uops>>

\* ------------------------------------------------------------ the database connection
\* this.maxReconnectAttempts = 5
maxReconnectAttempts == 5

\* Number of connect calls and retry timers pending at a time.
MaxPending == 3

\* Number of times setupEventListeners registers its handlers that is told apart.
MaxListeners == 2

\* new Database(): not connected, no attempt made; nothing in flight, no
\* handler registered, no connect call rejected.
Constructed ==
  [isConnected |-> FALSE, reconnectAttempts |-> 0, connecting |-> 0,
   timers |-> EmptyBag, listeners |-> 0, rejected |-> 0, last |-> "none"]

\* Math.pow(2, this.reconnectAttempts), in seconds.
Delay(attempts) == 2 ^ attempts

\* connect calls awaiting mongoose.connect plus retry timers not yet fired.
Pending(d) == d.connecting + BagCardinality(d.timers)

\* Everything but the database connection.
notDatabase == <<limiterVars, fpVars, detailVars, userVars, chats, cache>>

\* connect() is called: by ensureDatabaseConnection, waitForConnection or the
\* server at start; it awaits mongoose.connect.
ConnectCall ==
  /\ Pending(database) < MaxPending
  /\ database' = [database EXCEPT !.connecting = @ + 1, !.last = "call"]
  /\ UNCHANGED notDatabase

\* mongoose.connect resolved: the attempts are reset and setupEventListeners
\* registers its handlers once more.
ConnectOk ==
  /\ database.connecting > 0
  /\ database' = [database EXCEPT !.connecting = @ - 1, !.isConnected = TRUE,
                                  !.reconnectAttempts = 0,
                                  !.listeners = IF @ < MaxListeners THEN @ + 1 ELSE @,
                                  !.last = "ok"]
  /\ UNCHANGED notDatabase

\* Mutant: the retry is scheduled while the attempts are at most the maximum.
CatchOffByOne(d) ==
  IF d.reconnectAttempts <= maxReconnectAttempts
  THEN [d EXCEPT !.isConnected = FALSE, !.reconnectAttempts = @ + 1,
                 !.timers = @ (+) SetToBag({Delay(d.reconnectAttempts + 1)})]
  ELSE [d EXCEPT !.isConnected = FALSE,
                 !.rejected = IF @ < MaxPending THEN @ + 1 ELSE @]

\* The catch block of connect: below the maximum the attempt is counted and a
\* retry timer is set, otherwise the error is thrown.
Catch(d) ==
  IF d.reconnectAttempts < maxReconnectAttempts
  THEN [d EXCEPT !.isConnected = FALSE, !.reconnectAttempts = @ + 1,
                 !.timers = @ (+) SetToBag({Delay(d.reconnectAttempts + 1)})]
  ELSE [d EXCEPT !.isConnected = FALSE,
                 !.rejected = IF @ < MaxPending THEN @ + 1 ELSE @]

\* mongoose.connect rejected.
ConnectFail ==
  /\ database.connecting > 0
  /\ database' = [Catch(database) EXCEPT !.connecting = @ - 1, !.last = "fail"]
  /\ UNCHANGED notDatabase

\* A retry timer fires: setTimeout(() => this.connect(), delay).
RetryTimer ==
  /\ \E delay \in BagToSet(database.timers) :
       database' = [database EXCEPT !.timers = @ (-) SetToBag({delay}),
                                    !.connecting = @ + 1, !.last = "timer"]
  /\ UNCHANGED notDatabase

\* db.on('connected')
OnConnected ==
  /\ database.listeners > 0
  /\ database' = [database EXCEPT !.isConnected = TRUE, !.last = "connected"]
  /\ UNCHANGED notDatabase

\* db.on('error')
OnError ==
  /\ database.listeners > 0
  /\ database' = [database EXCEPT !.isConnected = FALSE, !.last = "error"]
  /\ UNCHANGED notDatabase

\* db.on('disconnected'): every registered handler calls connect() while the
\* attempts are below the maximum.
OnDisconnected ==
  /\ database.listeners > 0
  /\ Pending(database) + database.listeners <= MaxPending
  /\ database' = [database EXCEPT
                    !.isConnected = FALSE,
                    !.connecting = IF database.reconnectAttempts < maxReconnectAttempts
                                   THEN @ + database.listeners ELSE @,
                    !.last = "disconnected"]
  /\ UNCHANGED notDatabase

\* db.on('reconnected')
OnReconnected ==
  /\ database.listeners > 0
  /\ database' = [database EXCEPT !.isConnected = TRUE, !.reconnectAttempts = 0,
                                  !.last = "reconnected"]
  /\ UNCHANGED notDatabase

NextDatabase ==
  \/ ConnectCall
  \/ ConnectOk
  \/ ConnectFail
  \/ RetryTimer
  \/ OnConnected
  \/ OnError
  \/ OnDisconnected
  \/ OnReconnected

\* The transcript and the quota cache.
sideVars == <<chats, cache, database>>

others == <<fpVars, detailVars, userVars, sideVars>>

vars == <<now, dbReady, durable, fallbackStore, req, reqNo, anyDenied, others>>

\* Largest request number that is told apart.
MaxReq == MAX_MESSAGES_PER_DAY + 2

NoCheck ==
  [allowed |-> FALSE, reason |-> "none", dailyCount |-> 0, hourlyCount |-> 0,
   dailyResetTime |-> 0, hourlyResetTime |-> 0, exceededBy |-> "none"]

NoCounts == [dailyCount |-> 0, hourlyCount |-> 0]

IdleReq ==
  [pc |-> "idle", mode |-> "chat", n |-> 0, clean |-> FALSE,
   ip |-> NoKey, userToken |-> NoKey, fingerprint |-> NoKey,
   idx |-> 0, t |-> 0, tier |-> "none", result |-> NoDoc,
   maxDailyCount |-> 0, maxHourlyCount |-> 0,
   exceededIdentifier |-> "none", exceededLimit |-> "none",
   pre |-> [ty \in IdTypes |-> NoDoc], seen |-> << >>,
   preInc |-> [ty \in IdTypes |-> NoDoc],
   chk |-> NoCheck, chkTier |-> "none", chkNow |-> 0,
   cnt |-> NoCounts, incTier |-> "none", incNow |-> 0,
   status |-> 0, modelCalled |-> FALSE, error |-> << >>,
   message |-> Undefined, sessionId |-> Undefined, usersAt |-> << >>, chatsAt |-> 0,
   hit |-> FALSE, memo |-> [ty \in IdTypes |-> NoDoc],
   failed |-> {}, incFailed |-> {}]

\* An empty slot of the quota cache.
NoEntry ==
  [has |-> FALSE, at |-> 0, result |-> NoCheck, memo |-> [ty \in IdTypes |-> NoDoc]]

IdsOf(r) == Identifiers(r.ip, r.userToken, r.fingerprint)

\* The limiter after construction, no request in flight.
LimiterIdle ==
  /\ now = 0
  /\ durable = [k \in AllIds |-> NoDoc]
  /\ fallbackStore = [k \in AllIds |-> NoDoc]
  /\ req = [p \in Procs |-> IdleReq]
  /\ reqNo = 0
  /\ anyDenied = FALSE

\* No call of generateFingerprint is being looked at.
FingerprintIdle ==
  /\ fpArgs = <<NoInfo, NoInfo>>
  /\ fpResult = <<NotRun, NotRun>>

\* No call of updateUserDetails is being looked at.
DetailsIdle ==
  /\ udDoc = NoDetails
  /\ udLast = NoArgs
  /\ udDay = 0
  /\ udCalls = 0

\* An empty users collection, no request in flight.
UsersIdle ==
  /\ users = << >>
  /\ ucall = [p \in Procs |-> IdleCall]
  /\ uops = 0

\* No transcript entry, nothing memoized.
SideIdle ==
  /\ chats = 0
  /\ cache = [k \in CacheKeys |-> NoEntry]
  /\ database = Constructed

\* After construction: the connection to the database is not yet established.
Init ==
  /\ dbReady = FALSE
  /\ LimiterIdle
  /\ FingerprintIdle
  /\ DetailsIdle
  /\ UsersIdle
  /\ SideIdle

\* No call of generateFingerprint has been made.
InitFp ==
  /\ dbReady = TRUE
  /\ LimiterIdle
  /\ FingerprintIdle
  /\ DetailsIdle
  /\ UsersIdle
  /\ SideIdle

\* Call i of generateFingerprint is made with userInfo and returns.
GenerateFingerprintCall(i, userInfo) ==
  /\ ~fpResult[i].done
  /\ fpArgs' = [fpArgs EXCEPT ![i] = userInfo]
  /\ fpResult' = [fpResult EXCEPT ![i] = generateFingerprint(userInfo)]
  /\ UNCHANGED <<limiterVars, detailVars, userVars, sideVars>>

\* Two calls of generateFingerprint with any two arguments.
NextFp ==
  \/ \E i \in FpCalls : GenerateFingerprintCall(i, NoInfo)
  \/ \E i \in FpCalls, userInfo \in PresentInfos : GenerateFingerprintCall(i, userInfo)

SpecFp == InitFp /\ [][NextFp]_vars

\* A profile none of whose fields has been set.
InitDetails ==
  /\ dbReady = TRUE
  /\ LimiterIdle
  /\ FingerprintIdle
  /\ DetailsIdle
  /\ UsersIdle
  /\ SideIdle

\* user.updateUserDetails(email, name, notes) on the current day.
UpdateUserDetailsCall(email, name, notes) ==
  /\ udCalls < MaxCalls
  /\ udDoc' = updateUserDetails(udDoc, email, name, notes, udDay)
  /\ udLast' = [called |-> TRUE, email |-> email, name |-> name, notes |-> notes,
                day |-> udDay]
  /\ udCalls' = udCalls + 1
  /\ UNCHANGED <<limiterVars, fpVars, userVars, sideVars, udDay>>

\* Midnight (UTC) passes.
NextDay ==
  /\ udDay < MaxDay
  /\ udDay' = udDay + 1
  /\ UNCHANGED <<limiterVars, fpVars, userVars, sideVars, udDoc, udLast, udCalls>>

NextDetails ==
  \/ \E email \in EmailArgs, name \in NameArgs, notes \in NotesArgs :
       UpdateUserDetailsCall(email, name, notes)
  \/ NextDay

SpecDetails == InitDetails /\ [][NextDetails]_vars

\* The key a request carries for an identifier type.
KeyOf(r, ty) ==
  IF ty = "ip" THEN r.ip ELSE IF ty = "userToken" THEN r.userToken ELSE r.fingerprint

\* The records a store holds for the request's ip, token and fingerprint when
\* the check starts (history, read by the properties only).
Snapshot(store, r) ==
  [ty \in IdTypes |->
     IF KeyOf(r, ty) = NoKey THEN NoDoc ELSE store[<<ty, KeyOf(r, ty)>>]]

\* Mutant: the counts of the last identifier are reported, not the highest.
TrackLast(r, doc) ==
  [r EXCEPT !.maxDailyCount = doc.dailyCount, !.maxHourlyCount = doc.hourlyCount]

\* Track the highest counts across all identifiers (incrementCount).
TrackMax(r, doc) ==
  [r EXCEPT !.maxDailyCount = Max(@, doc.dailyCount),
            !.maxHourlyCount = Max(@, doc.hourlyCount)]

\* -------------------------------------------------- the check, per identifier
\* Mutant: the counts of the identifier evaluated last are reported.
EvaluateLast(r, id, doc) ==
  [r EXCEPT
     !.maxDailyCount = doc.dailyCount,
     !.maxHourlyCount = doc.hourlyCount,
     !.seen = Append(@, doc),
     !.exceededIdentifier = IF LimitOf(doc) # "none" THEN id[1] ELSE @,
     !.exceededLimit = IF LimitOf(doc) # "none" THEN LimitOf(doc) ELSE @]

\* Track the highest counts and test the limits for one evaluated record.
Evaluate(r, id, doc) ==
  [r EXCEPT
     !.maxDailyCount = Max(@, doc.dailyCount),
     !.maxHourlyCount = Max(@, doc.hourlyCount),
     !.seen = Append(@, doc),
     !.exceededIdentifier = IF LimitOf(doc) # "none" THEN id[1] ELSE @,
     !.exceededLimit = IF LimitOf(doc) # "none" THEN LimitOf(doc) ELSE @]

\* The object checkRateLimit / checkRateLimitFallback returns.
CheckResult(r) ==
  [allowed |-> r.exceededIdentifier = "none",
   reason |-> IF r.exceededIdentifier = "none" THEN "none"
              ELSE IF r.exceededLimit = "daily" THEN "daily_limit" ELSE "hourly_limit",
   dailyCount |-> r.maxDailyCount,
   hourlyCount |-> r.maxHourlyCount,
   dailyResetTime |-> Tomorrow(r.t),
   hourlyResetTime |-> NextHour(r.tier, r.t),
   exceededBy |-> r.exceededIdentifier]

\* Mutant: the request is counted whether or not the check allowed it.
AfterCheckAlwaysRecord(r) ==
  LET c == CheckResult(r)
  IN  [r EXCEPT !.chk = c, !.chkTier = r.tier, !.chkNow = r.t,
                !.result = NoDoc, !.idx = 0,
                !.status = IF c.allowed THEN 0 ELSE 429,
                !.pc = "record"]

\* The handler after checkRateLimit returned: 429 on denial, else on to
\* incrementCount.  A call of checkRateLimit on its own ends here.
AfterCheck(r) ==
  LET c == CheckResult(r)
  IN  [r EXCEPT !.chk = c, !.chkTier = r.tier, !.chkNow = r.t,
                !.result = NoDoc, !.idx = 0,
                !.status = IF c.allowed THEN 0 ELSE 429,
                !.pc = IF c.allowed /\ r.mode = "chat" THEN "record" ELSE "done"]

\* Mutant: the loop goes on to the remaining identifiers after a violation.
AdvanceNoBreak(r) ==
  IF r.idx = Len(IdsOf(r))
  THEN AfterCheck(r)
  ELSE [r EXCEPT !.idx = @ + 1, !.pc = "chk_find", !.result = NoDoc]

\* End of one loop iteration of the durable check: break, next identifier, or return.
Advance(r) ==
  IF r.exceededIdentifier # "none" \/ r.idx = Len(IdsOf(r))
  THEN AfterCheck(r)
  ELSE [r EXCEPT !.idx = @ + 1, !.pc = "chk_find", !.result = NoDoc]

\* The loop of checkRateLimitFallback from identifier i on; acc.r are the locals,
\* acc.store the fallback store.
RECURSIVE FallbackCheckFrom(_, _, _)
FallbackCheckFrom(acc, ids, i) ==
  IF i > Len(ids) THEN acc
  ELSE LET k == ids[i]
           d0 == FetchOrCreate(acc.store[k], "mem", acc.r.t)
           d1 == ApplyReset(d0, d0, "mem", acc.r.t)
           a1 == [store |-> [acc.store EXCEPT ![k] = d1], r |-> Evaluate(acc.r, k, d1)]
       IN  IF LimitOf(d1) # "none" THEN a1 ELSE FallbackCheckFrom(a1, ids, i + 1)

\* The loop of incrementCountFallback from identifier i on.
RECURSIVE FallbackIncFrom(_, _, _)
FallbackIncFrom(acc, ids, i) ==
  IF i > Len(ids) THEN acc
  ELSE LET k == ids[i]
           d1 == IncFallback(acc.store[k], acc.r.t)
       IN  FallbackIncFrom(
             [store |-> [acc.store EXCEPT ![k] = d1],
              r |-> TrackMax(acc.r, d1)],
             ids, i + 1)

\* A change of DurableCheckFrom: the first identifier alone decides.
DurableCheckFirstOnly(acc, ids, i) ==
  LET k == ids[i]
      result == FetchOrCreate(acc.store[k], "db", acc.r.t)
      d1 == ApplyReset(result, result, "db", acc.r.t)
  IN  [store |-> [acc.store EXCEPT ![k] = d1], r |-> Evaluate(acc.r, k, d1)]

\* The loop of the durable checkRateLimit from identifier i on, when no other
\* call touches the collection meanwhile.
RECURSIVE DurableCheckFrom(_, _, _)
DurableCheckFrom(acc, ids, i) ==
  IF i > Len(ids) THEN acc
  ELSE LET k == ids[i]
           result == FetchOrCreate(acc.store[k], "db", acc.r.t)
           d1 == ApplyReset(result, result, "db", acc.r.t)
           a1 == [store |-> [acc.store EXCEPT ![k] = d1], r |-> Evaluate(acc.r, k, d1)]
       IN  IF LimitOf(d1) # "none" THEN a1 ELSE DurableCheckFrom(a1, ids, i + 1)

\* The loop of the durable incrementCount from identifier i on.
RECURSIVE DurableIncFrom(_, _, _)
DurableIncFrom(acc, ids, i) ==
  IF i > Len(ids) THEN acc
  ELSE LET k == ids[i]
           result == IncDurable(acc.store[k], acc.r.t)
       IN  DurableIncFrom(
             [store |-> [acc.store EXCEPT ![k] = result],
              r |-> TrackMax(acc.r, result)],
             ids, i + 1)

\* ---------------------------------------------------------------- actions
\* checkRateLimit and incrementCount called on their own.
LimiterModes == {"check", "record"}

\* The positions of a request between two of its durable-store operations.
DurableSteps == {"chk_find", "chk_reset", "done", "inc_find"}

\* Calls of incrementCount on its own stop once a count is at the daily limit.
BelowCap(doc) ==
  doc.dailyCount < MAX_MESSAGES_PER_DAY /\ doc.hourlyCount < MAX_MESSAGES_PER_DAY

\* A POST /chat request arrives (message and sessionId valid), mode "chat"; or
\* checkRateLimit or incrementCount is called on its own, mode "check" or "record".
Start(p, modes, ips, tokens, fps, exclusive, counted) ==
  /\ req[p].pc = "idle"
  /\ exclusive => \A q \in Procs \ {p} : req[q].pc = "idle"
  /\ \E m \in modes, ip \in ips, tok \in tokens, fp \in fps :
       /\ m = "record" => \A k \in AllIds : BelowCap(durable[k]) /\ BelowCap(fallbackStore[k])
       /\ req' = [req EXCEPT ![p] =
                    [IdleReq EXCEPT !.pc = IF m = "record" THEN "record" ELSE "check",
                                    !.mode = m,
                                    !.ip = ip, !.userToken = tok,
                                    !.fingerprint = fp,
                                    !.clean = ~anyDenied,
                                    !.n = IF counted /\ reqNo < MaxReq
                                          THEN reqNo + 1 ELSE reqNo]]
  /\ reqNo' = IF counted /\ reqNo < MaxReq THEN reqNo + 1 ELSE reqNo
  /\ UNCHANGED <<now, dbReady, durable, fallbackStore, anyDenied, others>>

\* checkRateLimit, database not ready: checkRateLimitFallback runs to completion.
CheckFallback(p) ==
  /\ req[p].pc = "check"
  /\ ~dbReady
  /\ LET r0 == [req[p] EXCEPT !.tier = "mem", !.t = now,
                              !.pre = Snapshot(fallbackStore, req[p])]
         a == FallbackCheckFrom([store |-> fallbackStore, r |-> r0], IdsOf(r0), 1)
     IN  /\ fallbackStore' = a.store
         /\ req' = [req EXCEPT ![p] = AfterCheck(a.r)]
  /\ anyDenied' = (anyDenied \/ (req'[p].n > 0 /\ req'[p].status = 429))
  /\ UNCHANGED <<now, dbReady, durable, reqNo, others>>

\* checkRateLimit, database ready: read the clock and enter the loop.
CheckBegin(p) ==
  /\ req[p].pc = "check"
  /\ dbReady
  /\ req' = [req EXCEPT ![p] =
               [@ EXCEPT !.tier = "db", !.t = now, !.idx = 1, !.pc = "chk_find",
                         !.pre = Snapshot(durable, req[p])]]
  /\ UNCHANGED <<now, dbReady, durable, fallbackStore, reqNo, anyDenied, others>>

\* await RateLimit.findOneAndUpdate(..., {$setOnInsert}, {upsert: true, new: true})
ChkFind(p) ==
  /\ req[p].pc = "chk_find"
  /\ LET r == req[p]
         k == IdsOf(r)[r.idx]
         result == FetchOrCreate(durable[k], "db", r.t)
     IN  /\ durable' = [durable EXCEPT ![k] = result]
         /\ req' = [req EXCEPT ![p] =
                      IF ShouldResetDaily(result, r.t) \/ ShouldResetHourly(result, r.t)
                      THEN [r EXCEPT !.result = result, !.pc = "chk_reset"]
                      ELSE Advance(Evaluate(r, k, result))]
  /\ anyDenied' = (anyDenied \/ (req'[p].n > 0 /\ req'[p].status = 429))
  /\ UNCHANGED <<now, dbReady, fallbackStore, reqNo, others>>

\* await RateLimit.findByIdAndUpdate(result._id, updateData), then the rest of
\* the iteration on the local result.
ChkReset(p) ==
  /\ req[p].pc = "chk_reset"
  /\ LET r == req[p]
         k == IdsOf(r)[r.idx]
     IN  /\ durable' = [durable EXCEPT ![k] = ApplyReset(@, r.result, "db", r.t)]
         /\ req' = [req EXCEPT ![p] =
                      Advance(Evaluate(r, k, ApplyReset(r.result, r.result, "db", r.t)))]
  /\ anyDenied' = (anyDenied \/ (req'[p].n > 0 /\ req'[p].status = 429))
  /\ UNCHANGED <<now, dbReady, fallbackStore, reqNo, others>>

\* The handler after incrementCount returned.
AfterRecord(r) ==
  [r EXCEPT !.cnt = [dailyCount |-> r.maxDailyCount, hourlyCount |-> r.maxHourlyCount],
            !.incTier = r.tier, !.incNow = r.t, !.idx = 0,
            !.pc = IF r.mode = "record" THEN "done" ELSE "lookup"]

\* incrementCount, database not ready: incrementCountFallback runs to completion.
RecordFallback(p) ==
  /\ req[p].pc = "record"
  /\ ~dbReady
  /\ LET r0 == [req[p] EXCEPT !.tier = "mem", !.t = now,
                              !.preInc = Snapshot(fallbackStore, req[p]),
                              !.maxDailyCount = 0, !.maxHourlyCount = 0]
         a == FallbackIncFrom([store |-> fallbackStore, r |-> r0], IdsOf(r0), 1)
     IN  /\ fallbackStore' = a.store
         /\ req' = [req EXCEPT ![p] = AfterRecord(a.r)]
  /\ UNCHANGED <<now, dbReady, durable, reqNo, anyDenied, others>>

\* incrementCount, database ready: read the clock and enter the loop.
RecordBegin(p) ==
  /\ req[p].pc = "record"
  /\ dbReady
  /\ req' = [req EXCEPT ![p] =
               [@ EXCEPT !.tier = "db", !.t = now, !.idx = 1, !.pc = "inc_find",
                         !.preInc = Snapshot(durable, req[p]),
                         !.maxDailyCount = 0, !.maxHourlyCount = 0]]
  /\ UNCHANGED <<now, dbReady, durable, fallbackStore, reqNo, anyDenied, others>>

\* await RateLimit.findOneAndUpdate(..., {$inc, $setOnInsert}, {upsert: true, new: true})
IncFind(p) ==
  /\ req[p].pc = "inc_find"
  /\ LET r == req[p]
         k == IdsOf(r)[r.idx]
         result == IncDurable(durable[k], r.t)
         r1 == TrackMax(r, result)
     IN  /\ durable' = [durable EXCEPT ![k] = result]
         /\ req' = [req EXCEPT ![p] =
                      IF r.idx = Len(IdsOf(r)) THEN AfterRecord(r1)
                      ELSE [r1 EXCEPT !.idx = @ + 1]]
  /\ UNCHANGED <<now, dbReady, fallbackStore, reqNo, anyDenied, others>>

\* A change of SkipIdentifier: a failed store operation denies the request.
SkipDenies(r) ==
  AfterCheck([r EXCEPT !.failed = @ \cup {r.idx},
                       !.exceededIdentifier = IdsOf(r)[r.idx][1],
                       !.exceededLimit = "daily"])

\* catch (error) { continue; } in the loop of checkRateLimit: the identifier is
\* neither tracked nor tested, and the loop goes on.
SkipIdentifier(r) ==
  IF r.idx = Len(IdsOf(r))
  THEN AfterCheck([r EXCEPT !.failed = @ \cup {r.idx}])
  ELSE [r EXCEPT !.failed = @ \cup {r.idx}, !.idx = @ + 1, !.pc = "chk_find",
                 !.result = NoDoc]

\* RateLimit.findOneAndUpdate of the check rejects.
ChkFindFail(p) ==
  /\ req[p].pc = "chk_find"
  /\ req' = [req EXCEPT ![p] = SkipIdentifier(req[p])]
  /\ anyDenied' = (anyDenied \/ (req'[p].n > 0 /\ req'[p].status = 429))
  /\ UNCHANGED <<now, dbReady, durable, fallbackStore, reqNo, others>>

\* RateLimit.findByIdAndUpdate of the check rejects: the reset is not written.
ChkResetFail(p) ==
  /\ req[p].pc = "chk_reset"
  /\ req' = [req EXCEPT ![p] = SkipIdentifier(req[p])]
  /\ anyDenied' = (anyDenied \/ (req'[p].n > 0 /\ req'[p].status = 429))
  /\ UNCHANGED <<now, dbReady, durable, fallbackStore, reqNo, others>>

\* RateLimit.findOneAndUpdate of incrementCount rejects: the catch block logs
\* and the loop goes on.
IncFindFail(p) ==
  /\ req[p].pc = "inc_find"
  /\ LET r1 == [req[p] EXCEPT !.incFailed = @ \cup {req[p].idx}]
     IN  req' = [req EXCEPT ![p] =
                   IF r1.idx = Len(IdsOf(r1)) THEN AfterRecord(r1)
                   ELSE [r1 EXCEPT !.idx = @ + 1]]
  /\ UNCHANGED <<now, dbReady, durable, fallbackStore, reqNo, anyDenied, others>>

\* A store operation of the limiter fails.
StoreFail(p) ==
  \/ ChkFindFail(p)
  \/ ChkResetFail(p)
  \/ IncFindFail(p)

\* "Find user by token": no token, or waitForConnection resolves.
LookupOk(p) ==
  /\ req[p].pc = "lookup"
  /\ req[p].userToken = NoKey \/ dbReady
  /\ req' = [req EXCEPT ![p] = [@ EXCEPT !.pc = "model"]]
  /\ UNCHANGED <<now, dbReady, durable, fallbackStore, reqNo, anyDenied, others>>

\* "Find user by token": waitForConnection rejects, the handler answers 503.
LookupFail(p) ==
  /\ req[p].pc = "lookup"
  /\ req[p].userToken # NoKey
  /\ ~dbReady
  /\ req' = [req EXCEPT ![p] = [@ EXCEPT !.pc = "done", !.status = 503]]
  /\ UNCHANGED <<now, dbReady, durable, fallbackStore, reqNo, anyDenied, others>>

\* getAIAssistant().chat(...) returns and the handler answers 200.
ModelCall(p) ==
  /\ req[p].pc = "model"
  /\ req' = [req EXCEPT ![p] = [@ EXCEPT !.pc = "done", !.status = 200,
                                         !.modelCalled = TRUE]]
  /\ UNCHANGED <<now, dbReady, durable, fallbackStore, reqNo, anyDenied, others>>

\* The message of the error AIAssistant.chat throws when the completion
\* request fails or times out, word by word.
AssistantError == <<"Failed", "to", "get", "response", "from", "AI", "assistant">>

\* The /chat handler's catch block: the status it answers for an error.
StatusOfError(message) == IF Includes(message, <<"OpenAI">>) THEN 503 ELSE 500

\* openai.chat.completions.create rejects: chat() throws and the handler's
\* catch block answers.
ModelFail(p) ==
  /\ req[p].pc = "model"
  /\ req' = [req EXCEPT ![p] = [@ EXCEPT !.pc = "done", !.modelCalled = TRUE,
                                         !.error = AssistantError,
                                         !.status = StatusOfError(AssistantError)]]
  /\ UNCHANGED <<now, dbReady, durable, fallbackStore, reqNo, anyDenied, others>>

\* Time passes.  The clock is read only where a call starts, so with quiet set
\* ticks inside a loop of durable operations are not told apart from later ones.
Tick(quiet, last) ==
  /\ now < last
  /\ quiet => \A q \in Procs : req[q].pc \notin DurableSteps
  /\ now' = now + 1
  /\ UNCHANGED <<dbReady, durable, fallbackStore, req, reqNo, anyDenied, others>>

\* No request is inside a durable-store operation.
NoDurableOp ==
  \A q \in Procs : req[q].pc \notin DurableSteps

\* The 'connected' event of the database, before the first request arrives.
DbUp ==
  /\ ~dbReady
  /\ LimiterIdle
  /\ dbReady' = TRUE
  /\ UNCHANGED <<now, durable, fallbackStore, req, reqNo, anyDenied, others>>

\* The 'disconnected' / 'error' connection events of the database.
DbDown ==
  /\ dbReady
  /\ NoDurableOp
  /\ dbReady' = FALSE
  /\ UNCHANGED <<now, durable, fallbackStore, req, reqNo, anyDenied, others>>

\* The response has been sent; the handler's locals are gone.
Respond(p) ==
  /\ req[p].pc = "done"
  /\ req' = [req EXCEPT ![p] = IdleReq]
  /\ UNCHANGED <<now, dbReady, durable, fallbackStore, reqNo, anyDenied, others>>

\* The locals of a limiter call made on its own at the current clock value.
CallOf(m, tier, ip, tok, fp) ==
  [IdleReq EXCEPT !.mode = m, !.ip = ip, !.userToken = tok, !.fingerprint = fp,
                  !.tier = tier, !.t = now]

\* The same checkRateLimit call made on the durable store (result in slot p1)
\* and on the fallback store (result in slot p2), at the same clock value.
BothCheck ==
  \E ip \in IPs, tok \in {NoKey}, fp \in OptionalFingerprints :
    LET rd == CallOf("check", "db", ip, tok, fp)
        rf == CallOf("check", "mem", ip, tok, fp)
        ad == DurableCheckFrom([store |-> durable, r |-> rd], IdsOf(rd), 1)
        af == FallbackCheckFrom([store |-> fallbackStore, r |-> rf], IdsOf(rf), 1)
    IN  /\ durable' = ad.store
        /\ fallbackStore' = af.store
        /\ req' = [req EXCEPT !["p1"] = AfterCheck(ad.r), !["p2"] = AfterCheck(af.r)]
        /\ UNCHANGED <<now, dbReady, reqNo, anyDenied, others>>

\* The same incrementCount call made on both stores at the same clock value.
BothRecord ==
  \E ip \in IPs, tok \in {NoKey}, fp \in OptionalFingerprints :
    LET rd == CallOf("record", "db", ip, tok, fp)
        rf == CallOf("record", "mem", ip, tok, fp)
        ad == DurableIncFrom([store |-> durable, r |-> rd], IdsOf(rd), 1)
        af == FallbackIncFrom([store |-> fallbackStore, r |-> rf], IdsOf(rf), 1)
    IN  /\ \A k \in AllIds : BelowCap(durable[k]) /\ BelowCap(fallbackStore[k])
        /\ durable' = ad.store
        /\ fallbackStore' = af.store
        /\ req' = [req EXCEPT !["p1"] = AfterRecord(ad.r), !["p2"] = AfterRecord(af.r)]
        /\ UNCHANGED <<now, dbReady, reqNo, anyDenied, others>>

\* checkRateLimit and incrementCount as the handler calls them.
Limiter(p) ==
  \/ CheckFallback(p)
  \/ CheckBegin(p)
  \/ ChkFind(p)
  \/ ChkReset(p)
  \/ RecordFallback(p)
  \/ RecordBegin(p)
  \/ IncFind(p)

\* The rest of the handler when the user lookup does not fail.
Finish(p) ==
  \/ LookupOk(p)
  \/ ModelCall(p)
  \/ Respond(p)

Handle(p) ==
  \/ Limiter(p)
  \/ Finish(p)
  \/ LookupFail(p)

\* One request at a time; the database is connected before the first request
\* and stays so, or is unreachable throughout.
Next ==
  \/ DbUp
  \/ Start("p1", {"chat"}, IPs, OptionalTokens, OptionalFingerprints, TRUE, FALSE)
  \/ Handle("p1")
  \/ Tick(TRUE, MaxTime)

Spec == Init /\ [][Next]_vars

\* One request at a time, the model call failing or not.
NextFail ==
  \/ DbUp
  \/ Start("p1", {"chat"}, IPs, OptionalTokens, OptionalFingerprints, TRUE, FALSE)
  \/ Handle("p1")
  \/ ModelFail("p1")
  \/ Tick(TRUE, MaxTime)

SpecFail == Init /\ [][NextFail]_vars

\* Scenario A: one client (one network address and browser, no token), no
\* other traffic, inside the first day, on either store.
NextA ==
  \/ DbUp
  \/ Start("p1", {"chat"}, {"ip1"}, {NoKey}, {"f1"}, TRUE, TRUE)
  \/ Limiter("p1")
  \/ Finish("p1")
  \/ Tick(TRUE, DayLen - 1)

SpecA == Init /\ [][NextA]_vars

\* Two callers of the limiter at once for one network address and browser
\* fingerprint, each calling checkRateLimit and incrementCount in any order.
\* Durable operations of the two interleave, and time passes between any two
\* of them, up to the first hourly reset.
NextConc ==
  \/ DbUp
  \/ \E p \in Procs :
        \/ Start(p, LimiterModes, {"ip1"}, {NoKey}, Fingerprints, FALSE, FALSE)
        \/ Limiter(p)
        \/ Respond(p)
  \/ Tick(FALSE, HourLen + 1)

SpecConc == Init /\ [][NextConc]_vars

\* An outage: one client at one network address and browser, with or without a token,
\* sends requests one at a time; at some point between two limiter calls the
\* database becomes unreachable and stays so.
NextOutage ==
  \/ DbUp
  \/ Start("p1", {"chat"}, {"ip1"}, OptionalTokens, Fingerprints, TRUE, FALSE)
  \/ Handle("p1")
  \/ Tick(TRUE, MaxTime)
  \/ DbDown

SpecOutage == Init /\ [][NextOutage]_vars

\* checkRateLimit and incrementCount called on their own, one call at a time,
\* for any identifiers, on either store.
NextCalls ==
  \/ DbUp
  \/ Start("p1", LimiterModes, IPs, OptionalTokens, OptionalFingerprints, TRUE, FALSE)
  \/ Limiter("p1")
  \/ Respond("p1")
  \/ Tick(TRUE, MaxTime)

SpecCalls == Init /\ [][NextCalls]_vars

\* Both stores driven by the same calls at the same clock values from empty.
NextEq ==
  \/ DbUp
  \/ BothCheck
  \/ BothRecord
  \/ Tick(FALSE, MaxTime)

SpecEq == Init /\ [][NextEq]_vars

\* ------------------------------------------------------------------ /chat/init and the users collection
\* The database is connected and only user operations run.
InitUsers ==
  /\ dbReady = TRUE
  /\ LimiterIdle
  /\ FingerprintIdle
  /\ DetailsIdle
  /\ UsersIdle
  /\ SideIdle

\* The variables the user operations leave alone.
notUsers ==
  <<dbReady, durable, fallbackStore, req, reqNo, anyDenied, fpVars, detailVars, sideVars>>

\* POST /chat/init arrives; waitForConnection resolves.
InitStart(p, token, ip, userAgent) ==
  /\ ucall[p].pc = "idle"
  /\ uops < MaxOps
  /\ uops' = uops + 1
  /\ ucall' = [ucall EXCEPT ![p] = [IdleCall EXCEPT !.pc = "foc_find", !.op = "init",
                                     !.token = token, !.ip = ip,
                                     !.userAgent = userAgent]]
  /\ UNCHANGED <<now, users, notUsers>>

\* findOrCreateByToken: let user = await this.findOne({ token }).
FocFind(p) ==
  /\ ucall[p].pc = "foc_find"
  /\ LET i == IF ucall[p].token = NoKey THEN 0 ELSE findOne(users, ucall[p].token)
     IN  ucall' = [ucall EXCEPT ![p] =
                     IF i # 0
                     THEN [@ EXCEPT !.pc = "foc_save", !.id = i, !.doc = users[i]]
                     ELSE [@ EXCEPT !.pc = "foc_insert"]]
  /\ UNCHANGED <<now, users, uops, notUsers>>

\* findOrCreateByToken, user found: lastSeenIP is set and the change is saved.
FocSave(p) ==
  /\ ucall[p].pc = "foc_save"
  /\ LET c == ucall[p]
         ip == IF c.ip # << >> THEN c.ip ELSE c.doc.lastSeenIP
     IN  /\ users' = [users EXCEPT ![c.id] = [@ EXCEPT !.lastSeenIP = ip]]
         /\ ucall' = [ucall EXCEPT ![p] = [@ EXCEPT !.pc = "gen_session",
                                                     !.doc = [c.doc EXCEPT !.lastSeenIP = ip],
                                                     !.isNew = FALSE]]
  /\ UNCHANGED <<now, uops, notUsers>>

\* findOrCreateByToken, no user found: a profile is inserted under the token,
\* or under a random token when none was sent; the unique index may reject it.
FocInsert(p) ==
  /\ ucall[p].pc = "foc_insert"
  /\ \E minted \in MintedTokens : \E newToken \in {ucall[p].token, minted} :
       /\ IF ucall[p].token # NoKey
          THEN newToken = ucall[p].token
          ELSE newToken = minted /\ Matching(users, newToken) = {}
       /\ IF DuplicateKey(users, newToken)
          THEN /\ ucall' = [ucall EXCEPT ![p] = [@ EXCEPT !.pc = "foc_catch",
                                                           !.conflict = TRUE]]
               /\ UNCHANGED users
          ELSE /\ users' = Append(users, NewUser(newToken, ucall[p].ip))
               /\ ucall' = [ucall EXCEPT ![p] =
                              [@ EXCEPT !.pc = "gen_session", !.id = Len(users) + 1,
                                        !.doc = NewUser(newToken, ucall[p].ip),
                                        !.isNew = TRUE]]
  /\ UNCHANGED <<now, uops, notUsers>>

\* findOrCreateByToken, catch with error.code === 11000: the profile is looked
\* up again and returned; without one the error is rethrown and the handler
\* answers 503.
FocCatch(p) ==
  /\ ucall[p].pc = "foc_catch"
  /\ LET i == findOne(users, ucall[p].token)
     IN  ucall' = [ucall EXCEPT ![p] =
                     IF i # 0
                     THEN [@ EXCEPT !.pc = "gen_session", !.id = i, !.doc = users[i],
                                    !.isNew = FALSE]
                     ELSE [@ EXCEPT !.pc = "done", !.status = 503]]
  /\ UNCHANGED <<now, users, uops, notUsers>>

\* generateSessionId, then addSession up to its save: the session is pushed
\* onto the handler's copy of the profile unless that copy holds the id.
GenSession(p) ==
  /\ ucall[p].pc = "gen_session"
  /\ LET c == ucall[p]
         sid == generateSessionId(c.ip, c.userAgent, now)
         fresh == FindSession(c.doc, sid) = 0
     IN  ucall' = [ucall EXCEPT ![p] =
           [@ EXCEPT !.pc = "add_session", !.sessionId = sid, !.push = fresh,
                     !.doc = IF fresh
                             THEN [c.doc EXCEPT !.sessions = Append(@, NewSession(sid))]
                             ELSE c.doc]]
  /\ UNCHANGED <<now, users, uops, notUsers>>

\* addSession: this.save() sends the pushed session, if any; the handler answers.
AddSessionSave(p) ==
  /\ ucall[p].pc = "add_session"
  /\ LET c == ucall[p]
     IN  users' = IF c.push
                  THEN [users EXCEPT ![c.id] =
                          [@ EXCEPT !.sessions = Append(@, NewSession(c.sessionId))]]
                  ELSE users
  /\ ucall' = [ucall EXCEPT ![p] = [@ EXCEPT !.pc = "done", !.status = 200]]
  /\ UNCHANGED <<now, uops, notUsers>>

\* POST /chat arrives with a token and a session id and passes the limiter.
ChatStart(p, token, sessionId, ip) ==
  /\ ucall[p].pc = "idle"
  /\ uops < MaxOps
  /\ uops' = uops + 1
  /\ ucall' = [ucall EXCEPT ![p] = [IdleCall EXCEPT !.pc = "chat_find", !.op = "chat",
                                     !.token = token, !.sessionId = sessionId,
                                     !.ip = ip]]
  /\ UNCHANGED <<now, users, notUsers>>

\* user = await User.findByToken(userToken).
ChatFind(p) ==
  /\ ucall[p].pc = "chat_find"
  /\ LET i == findOne(users, ucall[p].token)
     IN  ucall' = [ucall EXCEPT ![p] =
                     IF i # 0
                     THEN [@ EXCEPT !.pc = "chat_save", !.id = i, !.doc = users[i]]
                     ELSE [@ EXCEPT !.pc = "done", !.status = 200]]
  /\ UNCHANGED <<now, users, uops, notUsers>>

\* updateSessionActivity: the counts of the handler's copy are raised when the
\* copy holds the session, and this.save() writes the values changed.
ChatSave(p) ==
  /\ ucall[p].pc = "chat_save"
  /\ LET c == ucall[p]
         j == FindSession(c.doc, c.sessionId)
     IN  users' =
           IF j # 0
           THEN [users EXCEPT ![c.id] =
                   [@ EXCEPT !.sessions[j].messageCount = c.doc.sessions[j].messageCount + 1,
                             !.totalMessages = c.doc.totalMessages + 1]]
           ELSE users
  /\ ucall' = [ucall EXCEPT ![p] = [@ EXCEPT !.pc = "done", !.status = 200]]
  /\ UNCHANGED <<now, uops, notUsers>>

\* The response has been sent.
UserRespond(p) ==
  /\ ucall[p].pc = "done"
  /\ ucall' = [ucall EXCEPT ![p] = [IdleCall EXCEPT !.status = 0]]
  /\ UNCHANGED <<now, users, uops, notUsers>>

\* Time passes.
ClockTick ==
  /\ now < MaxClock
  /\ now' = now + 1
  /\ UNCHANGED <<users, ucall, uops, notUsers>>

\* The user operations of POST /chat/init.
ChatInit(p) ==
  \/ \E token \in OptionalProfileTokens, ip \in ClientIPs, userAgent \in UserAgents :
       InitStart(p, token, ip, userAgent)
  \/ FocFind(p)
  \/ FocSave(p)
  \/ FocInsert(p)
  \/ FocCatch(p)
  \/ GenSession(p)
  \/ AddSessionSave(p)

\* The user operations of POST /chat.
ChatUser(p) ==
  \/ \E token \in ProfileTokens, sessionId \in SessionIds(users) \cup {ForeignSession},
        ip \in ClientIPs :
       ChatStart(p, token, sessionId, ip)
  \/ ChatFind(p)
  \/ ChatSave(p)

NextUsers ==
  \/ \E p \in Procs : ChatInit(p) \/ ChatUser(p) \/ UserRespond(p)
  \/ ClockTick

SpecUsers == InitUsers /\ [][NextUsers]_vars

\* The profile of t1 after two /chat/init requests at clock 0, one from each
\* of two addresses: two sessions, no message yet.
TwoSessions ==
  [NewUser("t1", <<"j">>) EXCEPT
     !.sessions = <<NewSession(generateSessionId(<<"i">>, <<"u">>, 0)),
                    NewSession(generateSessionId(<<"j">>, <<"u">>, 0))>>]

InitSessions ==
  /\ dbReady = TRUE
  /\ LimiterIdle
  /\ FingerprintIdle
  /\ DetailsIdle
  /\ SideIdle
  /\ users = <<TwoSessions>>
  /\ ucall = [p \in Procs |-> IdleCall]
  /\ uops = 0

\* addSession as /chat/init calls it for the known user t1.
AddSession(p) ==
  \/ \E token \in {"t1"}, ip \in ClientIPs, userAgent \in UserAgents :
       InitStart(p, token, ip, userAgent)
  \/ FocFind(p)
  \/ FocSave(p)
  \/ GenSession(p)
  \/ AddSessionSave(p)

\* addSession and updateSessionActivity calls of two handlers at a time on a
\* profile with two sessions.
NextSessions == \E p \in Procs : AddSession(p) \/ ChatUser(p) \/ UserRespond(p)

SpecSessions == InitSessions /\ [][NextSessions]_vars

\* Network addresses a returning client can come from.
RoamingIPs == {<<"i">>, <<"j">>}

\* findOrCreateByToken as /chat/init calls it, and the rest of that handler.
FindOrCreate(p) ==
  \/ \E token \in OptionalProfileTokens, ip \in RoamingIPs, userAgent \in UserAgents :
       InitStart(p, token, ip, userAgent)
  \/ FocFind(p)
  \/ FocSave(p)
  \/ FocInsert(p)
  \/ FocCatch(p)
  \/ GenSession(p)
  \/ AddSessionSave(p)
  \/ UserRespond(p)

\* Two /chat/init handlers at a time, with token t1, t2 or none, from either
\* address.
NextFoc == \E p \in Procs : FindOrCreate(p)

SpecFoc == InitUsers /\ [][NextFoc]_vars

\* ------------------------------------------------------------------ POST /chat, the whole handler
\* A sessionId that is missing or empty.
NoSessionIds == {Undefined, Text(<< >>)}

\* The session ids a client can send: none, one a /chat/init handed out, or
\* one of its own making.
SentSessionIds(us) ==
  NoSessionIds \cup {Text(s) : s \in SessionIds(us)} \cup {Text(ForeignSession)}

\* The variables the handler leaves alone before it reaches the limiter.
notArrive ==
  <<now, dbReady, durable, fallbackStore, reqNo, anyDenied, fpVars, detailVars,
    users, ucall, sideVars>>

\* POST /chat arrives with any body: the validation answers 400, or the
\* handler goes on to checkRateLimit.
Arrive(p) ==
  /\ req[p].pc = "idle"
  /\ ucall[p].pc = "idle"
  /\ uops < MaxOps
  /\ uops' = uops + 1
  /\ \E message \in Messages, sessionId \in SentSessionIds(users), tok \in OptionalTokens :
       LET err == InputError(message, sessionId)
           r0 == [IdleReq EXCEPT !.message = message, !.sessionId = sessionId,
                                 !.ip = "ip1", !.userToken = tok, !.fingerprint = "f1",
                                 !.usersAt = users, !.chatsAt = chats]
       IN  req' = [req EXCEPT ![p] =
                     IF err # "none"
                     THEN [r0 EXCEPT !.pc = "done", !.status = 400, !.error = <<err>>]
                     ELSE [r0 EXCEPT !.pc = "check"]]
  /\ UNCHANGED notArrive

\* "Find user by token" with a token: User.findByToken is called.
LookupBegin(p) ==
  /\ req[p].pc = "lookup"
  /\ req[p].userToken # NoKey
  /\ dbReady
  /\ ucall[p].pc = "idle"
  /\ ucall' = [ucall EXCEPT ![p] = [IdleCall EXCEPT !.pc = "chat_find", !.op = "chat",
                                     !.token = req[p].userToken,
                                     !.sessionId = req[p].sessionId.str]]
  /\ UNCHANGED <<now, users, uops, notUsers>>

\* "Find user by token" without a token: nothing is looked up.
LookupNone(p) ==
  /\ req[p].userToken = NoKey
  /\ LookupOk(p)

\* The user operations have returned; the handler goes on to the model call.
LookupEnd(p) ==
  /\ req[p].pc = "lookup"
  /\ ucall[p].pc = "done"
  /\ req' = [req EXCEPT ![p] = [@ EXCEPT !.pc = "model"]]
  /\ ucall' = [ucall EXCEPT ![p] = IdleCall]
  /\ UNCHANGED <<now, dbReady, durable, fallbackStore, reqNo, anyDenied, fpVars,
                 detailVars, users, uops, sideVars>>

\* getAIAssistant().chat(...) returns.
ModelReturn(p) ==
  /\ req[p].pc = "model"
  /\ req' = [req EXCEPT ![p] = [@ EXCEPT !.pc = "log", !.modelCalled = TRUE]]
  /\ UNCHANGED <<now, dbReady, durable, fallbackStore, reqNo, anyDenied, others>>

\* logChatSession: a transcript entry is saved when the database is connected.
LogChat(p) ==
  /\ req[p].pc = "log"
  /\ chats' = IF dbReady THEN chats + 1 ELSE chats
  /\ req' = [req EXCEPT ![p] = [@ EXCEPT !.pc = "headers"]]
  /\ UNCHANGED <<now, dbReady, durable, fallbackStore, reqNo, anyDenied, fpVars,
                 detailVars, userVars, cache, database>>

\* getRateLimitHeaders: getCounts reads the records, through
\* checkRateLimitFallback when the database is not connected; the handler
\* answers 200.
Headers(p) ==
  /\ req[p].pc = "headers"
  /\ LET r0 == [req[p] EXCEPT !.tier = "mem", !.t = now, !.seen = << >>,
                              !.maxDailyCount = 0, !.maxHourlyCount = 0]
         a == FallbackCheckFrom([store |-> fallbackStore, r |-> r0], IdsOf(r0), 1)
     IN  fallbackStore' = IF dbReady THEN fallbackStore ELSE a.store
  /\ req' = [req EXCEPT ![p] = [@ EXCEPT !.pc = "done", !.status = 200]]
  /\ UNCHANGED <<now, dbReady, durable, reqNo, anyDenied, others>>

\* The handler of POST /chat after the limiter.
AfterLimiter(p) ==
  \/ LookupNone(p)
  \/ LookupBegin(p)
  \/ ChatFind(p)
  \/ ChatSave(p)
  \/ LookupEnd(p)
  \/ LookupFail(p)
  \/ ModelReturn(p)
  \/ ModelFail(p)
  \/ LogChat(p)
  \/ Headers(p)
  \/ Respond(p)

\* POST /chat/init from the same client with its token, between two of its
\* chat requests.
InitRequest(p) ==
  /\ req[p].pc = "idle"
  /\ dbReady
  /\ \/ \E ip \in ClientIPs, userAgent \in UserAgents : InitStart(p, "t1", ip, userAgent)
     \/ FocFind(p)
     \/ FocSave(p)
     \/ FocInsert(p)
     \/ GenSession(p)
     \/ AddSessionSave(p)
     \/ UserRespond(p)

\* One client sends requests to /chat/init and /chat one at a time, with any
\* message and session id; the model call may fail.
NextChat ==
  \/ DbUp
  \/ Arrive("p1")
  \/ Limiter("p1")
  \/ AfterLimiter("p1")
  \/ InitRequest("p1")
  \/ Tick(TRUE, HourLen + 1)

SpecChat == Init /\ [][NextChat]_vars

\* checkRateLimit and incrementCount on the durable store.
DurableLimiter(p) ==
  \/ CheckBegin(p)
  \/ ChkFind(p)
  \/ ChkReset(p)
  \/ RecordBegin(p)
  \/ IncFind(p)

\* Two chat requests at a time from one network address, the database connected
\* throughout: the durable operations of the two interleave, and time passes
\* between any two of them, up to the first hourly reset.
NextAdmit ==
  \/ \E p \in Procs :
        \/ Start(p, {"chat"}, {"ip1"}, {NoKey}, {NoKey}, FALSE, FALSE)
        \/ DurableLimiter(p)
        \/ Finish(p)
  \/ Tick(FALSE, HourLen + 1)

SpecAdmit == InitUsers /\ [][NextAdmit]_vars

\* One chat request at a time, the database connected; any single operation
\* on the rate-limit collection may fail.
NextStoreFail ==
  \/ /\ \A k \in AllIds : BelowCap(durable[k])
     /\ Start("p1", {"chat"}, IPs, {NoKey}, Fingerprints, TRUE, FALSE)
  \/ DurableLimiter("p1")
  \/ StoreFail("p1")
  \/ Finish("p1")
  \/ Tick(TRUE, HourLen + 1)

SpecStoreFail == InitUsers /\ [][NextStoreFail]_vars

\* The connection to the database alone, from construction.
SpecDatabase == Init /\ [][NextDatabase]_vars

\* ------------------------------------------------------------------ the cached check
\* An entry is served until its time-to-live has elapsed.
Live(e) == e.has /\ now - e.at < CacheTtl

\* Expired entries are dropped on each access.
DropExpired(c) == [k \in CacheKeys |-> IF Live(c[k]) THEN c[k] ELSE NoEntry]

\* A change of Invalidate: entries leave the cache by expiry only.
InvalidateByTimeOnly(c, key) == c

\* record drops every entry whose key overlaps the key recorded for.
Invalidate(c, key) == [k \in CacheKeys |-> IF Overlap(k, key) THEN NoEntry ELSE c[k]]

\* check through the cache: a live entry of the key is served; otherwise the
\* limiter's check runs and an allowed result is memoized.
CachedCheck(p) ==
  /\ req[p].pc = "idle"
  /\ \E ip \in CacheIPs, tok \in OptionalTokens :
       LET key == <<ip, tok>>
           c0 == DropExpired(cache)
           r0 == CallOf("check", IF dbReady THEN "db" ELSE "mem", ip, tok, FingerprintAt(ip))
           a == IF dbReady
                THEN DurableCheckFrom([store |-> durable, r |-> r0], IdsOf(r0), 1)
                ELSE FallbackCheckFrom([store |-> fallbackStore, r |-> r0], IdsOf(r0), 1)
           c == CheckResult(a.r)
       IN  IF c0[key].has
           THEN /\ cache' = c0
                /\ req' = [req EXCEPT ![p] = [r0 EXCEPT !.pc = "done", !.hit = TRUE,
                                                        !.chk = c0[key].result,
                                                        !.memo = c0[key].memo]]
                /\ UNCHANGED <<durable, fallbackStore>>
           ELSE /\ cache' = IF c.allowed
                            THEN [c0 EXCEPT ![key] = [has |-> TRUE, at |-> now, result |-> c,
                                                      memo |-> Snapshot(a.store, r0)]]
                            ELSE c0
                /\ req' = [req EXCEPT ![p] = AfterCheck(a.r)]
                /\ durable' = IF dbReady THEN a.store ELSE durable
                /\ fallbackStore' = IF dbReady THEN fallbackStore ELSE a.store
  /\ UNCHANGED <<now, dbReady, reqNo, anyDenied, fpVars, detailVars, userVars, chats,
                 database>>

\* record: the limiter's increment runs and the overlapping entries are dropped.
CachedRecord(p) ==
  /\ req[p].pc = "idle"
  /\ \A k \in AllIds : BelowCap(durable[k]) /\ BelowCap(fallbackStore[k])
  /\ \E ip \in CacheIPs, tok \in OptionalTokens :
       LET r0 == CallOf("record", IF dbReady THEN "db" ELSE "mem", ip, tok, FingerprintAt(ip))
           a == IF dbReady
                THEN DurableIncFrom([store |-> durable, r |-> r0], IdsOf(r0), 1)
                ELSE FallbackIncFrom([store |-> fallbackStore, r |-> r0], IdsOf(r0), 1)
       IN  /\ cache' = Invalidate(cache, <<ip, tok>>)
           /\ req' = [req EXCEPT ![p] = AfterRecord(a.r)]
           /\ durable' = IF dbReady THEN a.store ELSE durable
           /\ fallbackStore' = IF dbReady THEN fallbackStore ELSE a.store
  /\ UNCHANGED <<now, dbReady, reqNo, anyDenied, fpVars, detailVars, userVars, chats,
                 database>>

\* check and record called through the cache, one call at a time, for two
\* network addresses with and without a token, on either store.
NextCache ==
  \/ DbUp
  \/ CachedCheck("p1")
  \/ CachedRecord("p1")
  \/ Respond("p1")
  \/ Tick(TRUE, CacheTtl)

SpecCache == Init /\ [][NextCache]_vars

\* ------------------------------------------------------------- properties
\* The store that served the request's check.
ServingStore(r) == IF r.chkTier = "db" THEN durable ELSE fallbackStore

\* checkRateLimit has returned for the request in slot p.
Checked(p) == req[p].chkTier # "none"

\* incrementCount has returned for the request in slot p.
Recorded(p) == req[p].incTier # "none"

\* checkRateLimit has returned and nothing has been counted since.
JustChecked(p) ==
  /\ Checked(p)
  /\ req[p].pc = "record" \/ (req[p].pc = "done" /\ req[p].status = 429)

\* C2 as stated: a check denies if and only if an evaluated identifier's
\* dailyCount strictly exceeds the daily limit or its hourlyCount strictly
\* exceeds the hourly limit.
C2_DenialIffStrictlyExceeds ==
  \A p \in Procs :
    Checked(p) =>
      (~req[p].chk.allowed <=>
         \E i \in 1..Len(req[p].seen) :
           \/ req[p].seen[i].dailyCount > MAX_MESSAGES_PER_DAY
           \/ req[p].seen[i].hourlyCount > MAX_MESSAGES_PER_HOUR)

\* C2 amended: a check denies if and only if an evaluated identifier's
\* dailyCount has reached (is at least) the daily limit or its hourlyCount has
\* reached the hourly limit; otherwise it allows.
C2_DenialIffLimitReached ==
  \A p \in Procs :
    Checked(p) =>
      (~req[p].chk.allowed <=>
         \E i \in 1..Len(req[p].seen) :
           \/ req[p].seen[i].dailyCount >= MAX_MESSAGES_PER_DAY
           \/ req[p].seen[i].hourlyCount >= MAX_MESSAGES_PER_HOUR)

\* A check denied on its second identifier, whose hourlyCount equals the limit,
\* while the first identifier was below its limits.
C2_Witness ==
  \E p \in Procs :
    /\ Checked(p)
    /\ ~req[p].chk.allowed
    /\ Len(req[p].seen) = 2
    /\ LimitOf(req[p].seen[1]) = "none"
    /\ req[p].seen[2].hourlyCount = MAX_MESSAGES_PER_HOUR

\* The step is the durable increment of slot p on identifier k.
IncStepOn(p, k) ==
  /\ req[p].pc = "inc_find"
  /\ req'[p] # req[p]
  /\ IdsOf(req[p])[req[p].idx] = k

\* The step is incrementCountFallback of slot p, and it names identifier k.
FallbackIncStepOn(p, k) ==
  /\ req[p].pc = "record"
  /\ req'[p].incTier = "mem"
  /\ \E i \in 1..Len(IdsOf(req[p])) : IdsOf(req[p])[i] = k

\* A step takes a count from c to c2 when n increments of its identifier are
\* applied in the step: the count goes up by n, or the record's window had
\* expired (reset time before the clock) and the count restarts at n.
CountsEvery(c, resetTime, c2, t, n) ==
  \/ c2 = c + n
  \/ resetTime < t /\ c2 = n

\* C1 as stated: inside one daily and one hourly window no increment of an
\* identifier is lost, whatever other requests are in flight: every
\* incrementCount raises both stored counts by one, whether the record existed
\* or not (a missing record counts as 0), and nothing but the reset of an
\* expired window takes a count down; so the counts after N calls are their
\* value before plus N.
C1_NoLostIncrement ==
  [][\A k \in AllIds :
      LET d == durable[k]
          e == durable'[k]
          f == fallbackStore[k]
          g == fallbackStore'[k]
          nd == Cardinality({p \in Procs : IncStepOn(p, k)})
          nf == Cardinality({p \in Procs : FallbackIncStepOn(p, k)})
      IN  /\ IF nd > 0
             THEN e.dailyCount = d.dailyCount + nd /\ e.hourlyCount = d.hourlyCount + nd
             ELSE /\ CountsEvery(d.dailyCount, d.dailyResetTime, e.dailyCount, now, 0)
                  /\ CountsEvery(d.hourlyCount, d.hourlyResetTime, e.hourlyCount, now, 0)
          /\ CountsEvery(f.dailyCount, f.dailyResetTime, g.dailyCount, now, nf)
          /\ CountsEvery(f.hourlyCount, f.hourlyResetTime, g.hourlyCount, now, nf)
    ]_vars

\* A step that lowers a count or moves a reset time of an existing record is
\* a reset: the window had expired, the count is zero afterwards (max = 0) or
\* holds only the increments of the same call (max = 1), and the reset time
\* has moved forward.
ResetsOnce(count, resetTime, count2, resetTime2, t, max) ==
  (count2 < count \/ resetTime2 # resetTime) =>
     /\ resetTime < t
     /\ count2 <= max
     /\ resetTime2 > resetTime

\* C5 as stated: a count is set to 0 once per window-boundary crossing however
\* many checks run, sequentially or concurrently; between crossings it never
\* decreases; every reset moves the stored reset time strictly forward.
C5_ResetOncePerBoundary ==
  [][\A k \in AllIds :
      LET d == durable[k]
          e == durable'[k]
          f == fallbackStore[k]
          g == fallbackStore'[k]
          nf == Cardinality({p \in Procs : FallbackIncStepOn(p, k)})
      IN  /\ d.exists =>
               /\ ResetsOnce(d.dailyCount, d.dailyResetTime,
                              e.dailyCount, e.dailyResetTime, now, 0)
               /\ ResetsOnce(d.hourlyCount, d.hourlyResetTime,
                              e.hourlyCount, e.hourlyResetTime, now, 0)
          /\ f.exists =>
               /\ ResetsOnce(f.dailyCount, f.dailyResetTime,
                              g.dailyCount, g.dailyResetTime, now, nf)
               /\ ResetsOnce(f.hourlyCount, f.hourlyResetTime,
                              g.hourlyCount, g.hourlyResetTime, now, nf)
    ]_vars

\* The identifier types the request carries.
TypesOf(r) == {ty \in IdTypes : KeyOf(r, ty) # NoKey}

\* The fallback store served the check and held no record of any of the
\* request's identifiers when the check started.
FreshFallbackCheck(p) ==
  /\ req[p].chkTier = "mem"
  /\ \A ty \in TypesOf(req[p]) : ~req[p].pre[ty].exists

\* C7: a request checked while the database is unreachable is evaluated against
\* the fallback store only: when that store has not seen its identifiers, the
\* check reports counts 0 and allows it, and the record reports and stores
\* count 1, whatever the durable store holds for the same identifiers.
C7_OutageStartsFromZero ==
  \A p \in Procs :
    FreshFallbackCheck(p) =>
      /\ req[p].chk.allowed
      /\ req[p].chk.dailyCount = 0 /\ req[p].chk.hourlyCount = 0
      /\ req[p].pc # "record"
           => /\ req[p].incTier = "mem"
              /\ req[p].cnt = [dailyCount |-> 1, hourlyCount |-> 1]
              /\ \A ty \in TypesOf(req[p]) :
                    /\ fallbackStore[<<ty, KeyOf(req[p], ty)>>].dailyCount = 1
                    /\ fallbackStore[<<ty, KeyOf(req[p], ty)>>].hourlyCount = 1

\* The durable store holds the network address at the daily limit, then the
\* database went away and the next request was counted as the first.
C7_Witness ==
  \E p \in Procs :
    /\ FreshFallbackCheck(p)
    /\ Recorded(p)
    /\ durable[<<"ip", req[p].ip>>].dailyCount >= MAX_MESSAGES_PER_DAY
    /\ req[p].cnt.dailyCount = 1

\* C8 as stated: with the database unreachable, a chat request that the
\* fallback check allowed and the fallback record counted is not failed: it
\* goes on to the model call and is answered 200.
C8_OutageDoesNotFailRequest ==
  \A p \in Procs :
    (/\ req[p].pc = "done"
     /\ req[p].mode = "chat"
     /\ req[p].chkTier = "mem" /\ req[p].chk.allowed
     /\ req[p].incTier = "mem")
    => (req[p].status = 200 /\ req[p].modelCalled)

\* C9 as stated: driven by the same calls at the same clock values from empty
\* state, the fallback store and the durable store hold the same counts and
\* reset times for every identifier and return the same decisions and counts.
C9_StoresAgree ==
  /\ \A k \in AllIds : durable[k] = fallbackStore[k]
  /\ req["p1"].chk = req["p2"].chk
  /\ req["p1"].cnt = req["p2"].cnt

\* Request i of scenario A, for i up to the daily limit, is allowed and
\* reports dailyCount = i.
ScenarioA_Allowed(p) ==
  /\ req[p].chk.allowed
  /\ req[p].cnt.dailyCount = req[p].n
  /\ ServingStore(req[p])[<<"ip", req[p].ip>>].dailyCount = req[p].n

\* Request L+1 of scenario A is denied for the daily limit, reports
\* dailyCount = L, and the stored dailyCount is still L.
ScenarioA_Denied(p) ==
  /\ ~req[p].chk.allowed
  /\ req[p].status = 429
  /\ req[p].chk.reason = "daily_limit"
  /\ req[p].chk.dailyCount = MAX_MESSAGES_PER_DAY
  /\ ServingStore(req[p])[<<"ip", req[p].ip>>].dailyCount = MAX_MESSAGES_PER_DAY
  /\ ServingStore(req[p])[<<"fingerprint", req[p].fingerprint>>].dailyCount
       = MAX_MESSAGES_PER_DAY

\* C3 as stated: of L+1 consecutive requests of a single client in one daily
\* window, request i <= L is allowed and reports dailyCount = i, and request
\* L+1 is denied for the daily limit with dailyCount = L, stored count L.
C3_ScenarioA ==
  \A p \in Procs :
    (req[p].pc = "done" /\ req[p].n >= 1) =>
      /\ req[p].n <= MAX_MESSAGES_PER_DAY => ScenarioA_Allowed(p)
      /\ req[p].n = MAX_MESSAGES_PER_DAY + 1 => ScenarioA_Denied(p)

\* The check of the request found every hourlyCount below the hourly limit.
HourlyBelowLimit(p) ==
  \A i \in 1..Len(req[p].seen) : req[p].seen[i].hourlyCount < MAX_MESSAGES_PER_HOUR

\* C3 amended: the same, provided that no request of the sequence finds an
\* hourlyCount at the hourly limit (none was denied before, and request i <= L
\* itself finds the hourly counts below the hourly limit).
C3_ScenarioAHourlyFree ==
  \A p \in Procs :
    (req[p].pc = "done" /\ req[p].n >= 1 /\ req[p].clean) =>
      /\ (req[p].n <= MAX_MESSAGES_PER_DAY /\ HourlyBelowLimit(p))
           => ScenarioA_Allowed(p)
      /\ req[p].n = MAX_MESSAGES_PER_DAY + 1 => ScenarioA_Denied(p)

\* Request L+1 has been answered after L allowed requests.
C3_Witness ==
  \E p \in Procs :
    /\ req[p].pc = "done"
    /\ req[p].clean
    /\ req[p].n = MAX_MESSAGES_PER_DAY + 1
    /\ req[p].status = 429

PosOf(r, ty) ==
  LET S == {i \in 1..Len(IdsOf(r)) : IdsOf(r)[i][1] = ty}
  IN  IF S = {} THEN 0 ELSE CHOOSE i \in S : TRUE

\* The identifier of type ty was evaluated by the request's check.
Evaluated(r, ty) == PosOf(r, ty) # 0 /\ PosOf(r, ty) <= Len(r.seen)

\* C6: the windows reset independently.  For an evaluated identifier whose
\* hourly window alone had expired, the check leaves hourlyCount 0 and a later
\* hourlyResetTime and leaves dailyCount and dailyResetTime as they were, and
\* symmetrically when the daily window alone had expired; and a request whose
\* identifiers are all past their hourly boundary and below the daily limit is
\* allowed.
C6_IndependentWindows ==
  \A p \in Procs :
    JustChecked(p) =>
      LET r == req[p]
      IN  /\ \A ty \in IdTypes :
               (Evaluated(r, ty) /\ r.pre[ty].exists) =>
                 LET a == r.pre[ty]
                     b == ServingStore(r)[<<ty, KeyOf(r, ty)>>]
                 IN  /\ (a.hourlyResetTime < r.chkNow /\ r.chkNow <= a.dailyResetTime)
                        => /\ b.hourlyCount = 0
                           /\ b.hourlyResetTime > r.chkNow
                           /\ b.dailyCount = a.dailyCount
                           /\ b.dailyResetTime = a.dailyResetTime
                     /\ (a.dailyResetTime < r.chkNow /\ r.chkNow <= a.hourlyResetTime)
                        => /\ b.dailyCount = 0
                           /\ b.dailyResetTime > r.chkNow
                           /\ b.hourlyCount = a.hourlyCount
                           /\ b.hourlyResetTime = a.hourlyResetTime
          /\ (\A ty \in IdTypes :
                r.pre[ty].exists =>
                  /\ r.pre[ty].hourlyResetTime < r.chkNow
                  /\ r.pre[ty].dailyCount < MAX_MESSAGES_PER_DAY)
             => r.chk.allowed /\ r.chk.hourlyCount = 0

\* A client that was at the hourly limit is checked after the hourly boundary,
\* inside its daily window, with a daily count that stays as it was.
C6_Witness ==
  \E p \in Procs :
    /\ JustChecked(p)
    /\ req[p].pre["ip"].exists
    /\ req[p].pre["ip"].hourlyCount >= MAX_MESSAGES_PER_HOUR
    /\ req[p].pre["ip"].hourlyResetTime < req[p].chkNow
    /\ req[p].chkNow <= req[p].pre["ip"].dailyResetTime
    /\ req[p].pre["ip"].dailyCount > 0
    /\ req[p].chk.allowed

\* The daily window alone had expired.
C6_WitnessDailyOnly ==
  \E p \in Procs :
    /\ JustChecked(p)
    /\ req[p].pre["ip"].exists
    /\ req[p].pre["ip"].dailyResetTime < req[p].chkNow
    /\ req[p].chkNow <= req[p].pre["ip"].hourlyResetTime
    /\ req[p].pre["ip"].hourlyCount > 0

NoBoundaryBetween(r) ==
  \A i \in 1..Len(r.seen) :
    /\ r.incNow <= r.seen[i].dailyResetTime
    /\ r.incNow <= r.seen[i].hourlyResetTime

MaxOf(S) == CHOOSE x \in S : \A y \in S : y <= x

\* The records the serving store holds for the identifiers of the request.
StoredOf(r) == {ServingStore(r)[IdsOf(r)[i]] : i \in 1..Len(IdsOf(r))}

RecordingStore(r) == IF r.incTier = "db" THEN durable ELSE fallbackStore

\* The count an increment leaves: one more than the count before, which is 0
\* for a missing record and for a window the increment found expired and reset.
Incremented(count, reset) == (IF reset THEN 0 ELSE count) + 1

C13_WitnessSecond ==
  \E p \in Procs :
    /\ JustChecked(p) /\ ~req[p].chk.allowed
    /\ Len(IdsOf(req[p])) = 3
    /\ req[p].chk.exceededBy = "userToken"

\* The five field values generateFingerprint reads, absent where missing.
FieldsOf(u) ==
  <<u.browser.name, u.browser.version, u.browser.os,
    u.geolocation.country, u.geolocation.city>>

\* C14 as stated: equal field values give equal fingerprints, and when none of
\* the five fields is available the fingerprint is absent (null).
C14_FingerprintPure ==
  (fpResult[1].done /\ fpResult[2].done) =>
    /\ FieldsOf(fpArgs[1]) = FieldsOf(fpArgs[2]) => fpResult[1] = fpResult[2]
    /\ \A i \in FpCalls :
          FieldsOf(fpArgs[i]) = <<Absent, Absent, Absent, Absent, Absent>>
            => fpResult[i] = Null

\* A call of updateUserDetails returns in this step.
DetailsCalled == udCalls' = udCalls + 1

\* The call of this step has the arguments of the call before it.
SameArgsAgain ==
  /\ udLast.called
  /\ udLast'.email = udLast.email
  /\ udLast'.name = udLast.name
  /\ udLast'.notes = udLast.notes

\* C17: updateUserDetails is idempotent and independent per field: a call with
\* the email, name and notes of the call before it leaves email, name and
\* notes as that call left them, and a call that supplies no value for a field
\* leaves that field unchanged.
C17_DetailsIdempotentIndependent ==
  [][DetailsCalled =>
       /\ SameArgsAgain => udDoc' = udDoc
       /\ udLast'.email = << >> => udDoc'.email = udDoc.email
       /\ udLast'.name = << >> => udDoc'.name = udDoc.name
       /\ udLast'.notes = << >> => udDoc'.notes = udDoc.notes]_vars

\* The positions of /chat/init after findOrCreateByToken.
SessionSteps == {"add_session", "gen_session"}

\* findOrCreateByToken has returned a profile to the /chat/init handler in slot p.
FocReturned(p) ==
  ucall[p].op = "init" /\ ucall[p].pc \in SessionSteps

\* findOrCreateByToken has thrown in slot p.
FocFailed(p) == ucall[p].op = "init" /\ ucall[p].status = 503

\* C15: whatever findOrCreateByToken calls with a non-empty token have run, one
\* after the other or interleaved, no token has two profiles, no such call
\* fails, and each call that has returned holds the one profile of its token.
C15_OneProfilePerToken ==
  /\ \A t \in ProfileTokens : Cardinality(Matching(users, t)) <= 1
  /\ \A p \in Procs :
       ucall[p].token # NoKey =>
         /\ ~FocFailed(p)
         /\ FocReturned(p) =>
              /\ Matching(users, ucall[p].token) = {ucall[p].id}
              /\ ucall[p].doc.token = ucall[p].token

\* Two interleaved calls with the same token: the insert of one was rejected by
\* the unique index and it has returned the profile the other created.
C15_Witness ==
  \E p \in Procs, q \in Procs :
    /\ p # q
    /\ FocReturned(p) /\ ucall[p].conflict /\ ~ucall[p].isNew
    /\ ucall[q].op = "init" /\ ucall[q].isNew /\ ucall[q].token = ucall[p].token
    /\ ucall[q].id = ucall[p].id

\* Places (profile, position) where a session id is attached.
Attached(us, sid) ==
  {<<i, j>> \in (1..Len(us)) \X (1..MaxOps + 1) :
     j <= Len(us[i].sessions) /\ us[i].sessions[j].sessionId = sid}

\* addSession saves in this step, for a session id the stored profile holds.
AddsKnownSession(p) ==
  /\ ucall[p].pc = "add_session"
  /\ ucall'[p].pc = "done"
  /\ FindSession(users[ucall[p].id], ucall[p].sessionId) # 0

\* C16: every session id is attached to at most one profile and at most once in
\* its session list, and addSession with an id the list holds leaves the list
\* as it was.
C16_SessionAttachedOnce ==
  /\ [](\A sid \in SessionIds(users) : Cardinality(Attached(users, sid)) <= 1)
  /\ [][\A p \in Procs :
          AddsKnownSession(p) =>
            users'[ucall[p].id].sessions = users[ucall[p].id].sessions]_vars

\* The message count a profile records for a session id, 0 without the session.
SessionCount(doc, sid) ==
  IF FindSession(doc, sid) = 0 THEN 0
  ELSE doc.sessions[FindSession(doc, sid)].messageCount

\* The /chat handler in slot p saves the session activity of a known user in
\* this step.
SavesActivity(p) == ucall[p].pc = "chat_save" /\ ucall'[p].pc = "done"

\* C19: the session update of each chat message of a known user raises the
\* message count of the message's session and the totalMessages of the user by
\* exactly 1 each, whatever session id the request carries and whatever other
\* messages of the same user are in flight.
C19_MessageCountedOnce ==
  [][\A p \in Procs :
       SavesActivity(p) =>
         LET i == ucall[p].id
             sid == ucall[p].sessionId
         IN  /\ users'[i].totalMessages = users[i].totalMessages + 1
             /\ SessionCount(users'[i], sid) = SessionCount(users[i], sid) + 1]_vars

\* C18: a chat request whose model call failed or timed out is answered 503
\* ('service temporarily unavailable'), never 500.
C18_ModelFailureIs503 ==
  \A p \in Procs :
    req[p].pc = "done" /\ req[p].error # << >> => req[p].status = 503

\* The resetTime of the 429 response: the reset time of the window named by
\* the reason.
DenialResetTime(c) ==
  IF c.reason = "daily_limit" THEN c.dailyResetTime ELSE c.hourlyResetTime

\* The request in slot p has been answered 429.
Denied(p) == req[p].pc = "done" /\ req[p].status = 429

\* The stored record of the identifier that triggered the denial of r.
OffendingRecord(r) == ServingStore(r)[IdsOf(r)[Len(r.seen)]]

\* The time at which the stored window named by the denial of r resets.
WindowResetTime(r) ==
  IF r.chk.reason = "daily_limit"
  THEN OffendingRecord(r).dailyResetTime
  ELSE OffendingRecord(r).hourlyResetTime

\* C20: every denial names the window whose limit was reached and the kind of
\* the identifier that reached it, and its resetTime is the reset time of that
\* window and is strictly later than the time of the denial.
C20_DenialCarriesWindowReset ==
  \A p \in Procs :
    Denied(p) =>
      LET r == req[p]
      IN  /\ r.seen # << >>
          /\ r.chk.reason = (IF LimitOf(r.seen[Len(r.seen)]) = "daily"
                              THEN "daily_limit" ELSE "hourly_limit")
          /\ LimitOf(r.seen[Len(r.seen)]) # "none"
          /\ r.chk.exceededBy = IdsOf(r)[Len(r.seen)][1]
          /\ DenialResetTime(r.chk) = WindowResetTime(r)
          /\ DenialResetTime(r.chk) > now

\* A body the validation has to reject: the message missing, empty, not a
\* string or longer than the maximum, or the sessionId missing.
Malformed(message, sessionId) ==
  \/ message.type = "undefined"
  \/ message = Text(<< >>)
  \/ message.type # "string"
  \/ Len(message.str) > MAX_MESSAGE_LENGTH
  \/ sessionId.type = "undefined"

\* Neither store, nor the users collection, nor the transcript changes in this step.
NoEffect ==
  /\ durable' = durable
  /\ fallbackStore' = fallbackStore
  /\ users' = users
  /\ chats' = chats

\* C21: a chat request whose message is missing, empty, not a string or too
\* long, or whose sessionId is missing, is answered 400 as it arrives and has
\* no effect: no rate-limit record is created, reset or incremented, no user
\* or session count changes, no transcript entry is written and the model is
\* not called, up to the moment the response is sent.
C21_MalformedRequestRejected ==
  [][\A p \in Procs :
       /\ (req[p].pc = "idle" /\ req'[p].pc # "idle"
             /\ Malformed(req'[p].message, req'[p].sessionId))
            => /\ req'[p].pc = "done"
               /\ req'[p].status = 400
               /\ ~req'[p].modelCalled
               /\ NoEffect
       /\ req[p].status = 400
            => /\ NoEffect
               /\ req'[p] = req[p] \/ req'[p] = IdleReq]_vars

\* A message longer than the maximum has been answered 400 after earlier
\* requests of the client were counted and a profile of its token exists.
C21_Witness ==
  /\ req["p1"].pc = "done"
  /\ req["p1"].status = 400
  /\ req["p1"].message.type = "string"
  /\ Len(req["p1"].message.str) > MAX_MESSAGE_LENGTH
  /\ req["p1"].sessionId.type = "string"
  /\ users # << >>
  /\ \E k \in AllIds : durable[k].dailyCount > 0

\* The count a store holds now for identifier ty of request r does not exceed
\* the count memoized with the result the request was served.
NotStale(r, store, ty) ==
  /\ store[<<ty, KeyOf(r, ty)>>].dailyCount <= r.memo[ty].dailyCount
  /\ store[<<ty, KeyOf(r, ty)>>].hourlyCount <= r.memo[ty].hourlyCount

ResetStepOf(p) == req[p].pc = "chk_reset" /\ req'[p] # req[p]

\* C23 as stated: the window reset is atomic with respect to increments on the
\* same identifier: when the stored record has changed since the check read it
\* (an increment, or another check's reset followed by an increment, came in
\* between), the reset write takes no count down, so no increment applied
\* after the boundary is overwritten.
C23_ResetKeepsLaterIncrements ==
  [][\A p \in Procs :
       ResetStepOf(p) =>
         LET k == IdsOf(req[p])[req[p].idx]
         IN  durable[k] # req[p].result =>
               /\ durable'[k].dailyCount >= durable[k].dailyCount
               /\ durable'[k].hourlyCount >= durable[k].hourlyCount]_vars

\* A record that found count and resetTime stored, with the window's boundary
\* behind it at clock t, leaves count2 = 1 and resetTime2 ahead of t.
RecordRestartsWindow(resetTime, count2, resetTime2, t) ==
  resetTime < t => count2 = 1 /\ resetTime2 > t

\* C24 as stated: incrementCount applies the reset check of checkRateLimit
\* before it increments: a record call made after a window boundary, with no
\* check since the boundary, leaves that window's count at 1 and its reset
\* time at the next boundary.
C24_RecordAppliesResetCheck ==
  \A p \in Procs :
    req[p].pc = "done" /\ req[p].mode = "record" =>
      \A ty \in TypesOf(req[p]) :
        LET b == req[p].preInc[ty]
            s == RecordingStore(req[p])[<<ty, KeyOf(req[p], ty)>>]
        IN  b.exists =>
              /\ RecordRestartsWindow(b.dailyResetTime, s.dailyCount,
                                      s.dailyResetTime, req[p].incNow)
              /\ RecordRestartsWindow(b.hourlyResetTime, s.hourlyCount,
                                      s.hourlyResetTime, req[p].incNow)

\* A check at clock t that found count and resetTime stored, with t at or past
\* resetTime, leaves count2 = 0 and resetTime2 ahead of t.
CheckRestartsWindow(resetTime, count2, resetTime2, t) ==
  t >= resetTime => count2 = 0 /\ resetTime2 > t

\* C25 as stated: a check made at any time t >= resetAt of a window, t equal to
\* resetAt included, resets that window's count to 0 and moves resetAt to the
\* next boundary, strictly after t, for every identifier it evaluates.
C25_ResetAtOrAfterBoundary ==
  \A p \in Procs :
    JustChecked(p) =>
      \A ty \in IdTypes :
        (Evaluated(req[p], ty) /\ req[p].pre[ty].exists) =>
          LET a == req[p].pre[ty]
              b == ServingStore(req[p])[<<ty, KeyOf(req[p], ty)>>]
          IN  /\ CheckRestartsWindow(a.dailyResetTime, b.dailyCount,
                                     b.dailyResetTime, req[p].chkNow)
              /\ CheckRestartsWindow(a.hourlyResetTime, b.hourlyCount,
                                     b.hourlyResetTime, req[p].chkNow)

\* The model call of the request in slot p has failed and the handler has answered.
ModelFailed(p) == req[p].pc = "done" /\ req[p].error = AssistantError

\* C26 as stated: the counters are incremented only after the model call has
\* returned successfully: when the model call of a request fails, every
\* identifier of the request holds the counts its check evaluated.
C26_CountedAfterModelSuccess ==
  \A p \in Procs :
    ModelFailed(p) =>
      \A ty \in TypesOf(req[p]) :
        LET c == req[p].seen[PosOf(req[p], ty)]
            s == ServingStore(req[p])[<<ty, KeyOf(req[p], ty)>>]
        IN  s.dailyCount = c.dailyCount /\ s.hourlyCount = c.hourlyCount

\* The request in slot p was denied by its check and answered 429.
Denied429(p) == req[p].pc = "done" /\ req[p].status = 429

\* incrementCount of the request in slot p is about to run, runs or has returned.
Recording(p) == req[p].pc = "record" \/ req[p].pc = "inc_find" \/ Recorded(p)

\* C27: in a chat request incrementCount runs only after checkRateLimit of that
\* request returned allowed; a denied request ends with 429 and changes
\* nothing else: no count of its identifiers is above the count before the
\* request, the profiles and their session message counts and the transcript
\* are as they were when it arrived, and the model has not been called.
C27_RecordOnlyAfterAllowedCheck ==
  \A p \in Procs :
    /\ Recording(p) => Checked(p) /\ req[p].chk.allowed
    /\ Denied429(p) =>
         /\ ~Recorded(p)
         /\ ~req[p].modelCalled
         /\ users = req[p].usersAt
         /\ chats = req[p].chatsAt
         /\ \A ty \in TypesOf(req[p]) :
              LET a == req[p].pre[ty]
                  s == ServingStore(req[p])[<<ty, KeyOf(req[p], ty)>>]
              IN  s.dailyCount <= a.dailyCount /\ s.hourlyCount <= a.hourlyCount

\* A request with a token is denied after earlier requests of the same client
\* were answered and logged and brought the address to the hourly limit.
C27_Witness ==
  /\ Denied429("p1")
  /\ req["p1"].userToken = "t1"
  /\ chats > 0
  /\ durable[<<"ip", "ip1">>].hourlyCount = MAX_MESSAGES_PER_HOUR

\* The most chat requests in flight at once: one per handler slot.
InFlightMax == Cardinality(Procs)

\* The step is the durable increment of identifier k by slot p, and k still
\* holds the counts p's check evaluated: nothing was counted for k between the
\* check and the record of p, as when requests come strictly one after another.
RecordsUndisturbed(p, k) ==
  /\ req[p].pc = "inc_find"
  /\ req'[p] # req[p]
  /\ IdsOf(req[p])[req[p].idx] = k
  /\ durable[k].dailyCount = req[p].seen[req[p].idx].dailyCount
  /\ durable[k].hourlyCount = req[p].seen[req[p].idx].hourlyCount

\* C28: with the durable store reachable and at most InFlightMax chat requests
\* sharing an identifier in flight between their check and their record, the
\* identifier's counts never exceed the limits by more than InFlightMax - 1;
\* and a record that no other record came in front of since its check leaves
\* the counts within the limits.
C28_BoundedOverAdmission ==
  /\ [](\A k \in AllIds :
          /\ durable[k].dailyCount <= MAX_MESSAGES_PER_DAY + InFlightMax - 1
          /\ durable[k].hourlyCount <= MAX_MESSAGES_PER_HOUR + InFlightMax - 1)
  /\ [][\A p \in Procs, k \in AllIds :
          RecordsUndisturbed(p, k) =>
            /\ durable'[k].dailyCount <= MAX_MESSAGES_PER_DAY
            /\ durable'[k].hourlyCount <= MAX_MESSAGES_PER_HOUR]_vars

\* Two requests of one address were both allowed at one below the hourly
\* limit and both counted: the count is one above the limit.
C28_Witness ==
  /\ durable[<<"ip", "ip1">>].hourlyCount = MAX_MESSAGES_PER_HOUR + 1
  /\ \A p \in Procs : Recorded(p) /\ req[p].chk.allowed

\* The stores a check can be served from.
Tiers == {"db", "mem"}

\* Every order in which the identifiers ids can be evaluated.
Orders(ids) ==
  {o \in [1..Len(ids) -> {ids[i] : i \in 1..Len(ids)}] :
     \A i, j \in 1..Len(ids) : i # j => o[i] # o[j]}

\* What checkRateLimit with locals r returns from the stores as they are when
\* it evaluates the identifiers in the order ids.
CheckOf(r, ids) ==
  CheckResult((IF r.tier = "db"
               THEN DurableCheckFrom([store |-> durable, r |-> r], ids, 1)
               ELSE FallbackCheckFrom([store |-> fallbackStore, r |-> r], ids, 1)).r)

\* C29: the allow/deny outcome of checkRateLimit does not depend on the order
\* in which the identifiers are evaluated: on the same stored counts every
\* order of the identifiers of a call gives the same value of allowed.
C29_OrderIndependentDecision ==
  \A tier \in Tiers, ip \in IPs, fp \in OptionalFingerprints :
    LET r == CallOf("check", tier, ip, NoKey, fp)
        allowed == CheckOf(r, IdsOf(r)).allowed
    IN  \A o \in Orders(IdsOf(r)) : CheckOf(r, o).allowed = allowed

\* A check of ip1 with the fingerprint has been denied by the address, and with
\* the fingerprint evaluated first the same stores deny it by the fingerprint.
C29_Witness ==
  /\ req["p1"].pc = "done" /\ req["p1"].mode = "check"
  /\ req["p1"].fingerprint = "f1"
  /\ ~req["p1"].chk.allowed /\ req["p1"].chk.exceededBy = "ip"
  /\ LET r == CallOf("check", "db", req["p1"].ip, NoKey, "f1")
     IN  /\ ~CheckOf(r, <<IdsOf(r)[2], IdsOf(r)[1]>>).allowed
         /\ CheckOf(r, <<IdsOf(r)[2], IdsOf(r)[1]>>).exceededBy = "fingerprint"

\* The list the claim describes: the address, then the token when one was
\* supplied, then the fingerprint when one was derived.
ExpectedIds(ip, userToken, fingerprint) ==
  << <<"ip", ip>> >>
    \o (IF userToken # NoKey THEN << <<"userToken", userToken>> >> ELSE << >>)
    \o (IF fingerprint # NoKey THEN << <<"fingerprint", fingerprint>> >> ELSE << >>)

\* No identifier occurs twice in ids.
NoRepeat(ids) == \A i, j \in 1..Len(ids) : i # j => ids[i] # ids[j]

\* The identifiers in ids, as a set.
Listed(ids) == {ids[i] : i \in 1..Len(ids)}

\* The positions of the handler inside checkRateLimit, incrementCount and
\* getRateLimitHeaders.
LimiterSteps == {"check", "chk_find", "chk_reset", "headers", "inc_find", "record"}

\* The step is one of the limiter calls of the request in slot p.
LimiterStepOf(p) == req[p].pc \in LimiterSteps /\ req'[p] # req[p]

\* C30: the identifier list of a request is the address (always), the token if
\* and only if one was supplied, the fingerprint if and only if one was derived,
\* in this order; it is never empty and names no identifier twice; and
\* checkRateLimit, incrementCount and getCounts of one request work on that
\* list: they touch no record outside it, an allowed check evaluates all of it
\* and the record counts all of it.
C30_IdentifierList ==
  /\ [](\A ip \in IPs, tok \in OptionalTokens, fp \in OptionalFingerprints :
          LET ids == Identifiers(ip, tok, fp)
          IN  ids = ExpectedIds(ip, tok, fp) /\ Len(ids) >= 1 /\ NoRepeat(ids))
  /\ [](\A p \in Procs :
          /\ Checked(p) /\ req[p].chk.allowed => Len(req[p].seen) = Len(IdsOf(req[p]))
          /\ Recorded(p) =>
               \A k \in Listed(IdsOf(req[p])) : RecordingStore(req[p])[k].dailyCount >= 1)
  /\ [][\A p \in Procs, k \in AllIds :
          (LimiterStepOf(p) /\ (durable'[k] # durable[k] \/ fallbackStore'[k] # fallbackStore[k]))
            => k \in Listed(IdsOf(req[p]))]_vars

\* A request with a token has been answered: its check, its record and its
\* headers worked on the address, the token and the fingerprint.
C30_Witness ==
  /\ req["p1"].pc = "done" /\ req["p1"].status = 200
  /\ IdsOf(req["p1"]) = << <<"ip", "ip1">>, <<"userToken", "t1">>, <<"fingerprint", "f1">> >>
  /\ \A k \in Listed(IdsOf(req["p1"])) : durable[k].dailyCount >= 1
  /\ ~durable[<<"ip", "ip2">>].exists

\* The user operation in slot p leaves position pc in this step.
FocStep(p, pc) == ucall[p].pc = pc /\ ucall'[p].pc # pc

\* The profiles the collection held before the step are as they were, except
\* the one at position i.
OthersKept(i) ==
  /\ Len(users') >= Len(users)
  /\ \A j \in 1..Len(users) : j # i => users'[j] = users[j]

\* The tokens of the stored profiles.
TokensOf(us) == {us[i].token : i \in 1..Len(us)}

\* C31: findOrCreateByToken.  With a token that has a profile it returns that
\* profile with isNew = false, sets its last-seen address and creates nothing;
\* with a token that has no profile it creates one profile under that token;
\* with no token it creates a profile under a newly minted token that no
\* stored profile has, and leaves every stored profile as it was; a returned
\* profile carries the supplied token, and no step creates more than one
\* profile.
C31_FindOrCreateByToken ==
  /\ [][\A p \in Procs :
          LET c == ucall[p]
              d == ucall'[p]
          IN  /\ FocStep(p, "foc_find") =>
                   /\ users' = users
                   /\ (c.token # NoKey /\ Matching(users, c.token) # {}) => d.pc = "foc_save"
              /\ FocStep(p, "foc_save") =>
                   /\ Len(users') = Len(users)
                   /\ OthersKept(c.id)
                   /\ users[c.id].token = c.token
                   /\ users'[c.id] = [users[c.id] EXCEPT !.lastSeenIP = c.ip]
                   /\ d.id = c.id /\ ~d.isNew /\ d.doc.token = c.token
              /\ (FocStep(p, "foc_insert") /\ d.pc = "gen_session") =>
                   /\ Len(users') = Len(users) + 1
                   /\ OthersKept(0)
                   /\ users'[Len(users')].token \notin TokensOf(users)
                   /\ c.token # NoKey => users'[Len(users')].token = c.token
                   /\ c.token = NoKey => users'[Len(users')].token \in MintedTokens
                   /\ d.id = Len(users') /\ d.isNew /\ d.doc = users'[d.id]
              /\ (FocStep(p, "foc_insert") /\ d.pc # "gen_session") => users' = users
              /\ FocStep(p, "foc_catch") =>
                   /\ users' = users
                   /\ d.pc = "gen_session" => ~d.isNew /\ d.doc.token = c.token]_vars
  /\ [](\A p \in Procs :
          FocReturned(p) =>
            /\ ucall[p].token # NoKey => ucall[p].doc.token = ucall[p].token
            /\ ucall[p].token = NoKey => ucall[p].isNew
            /\ Cardinality(Matching(users, ucall[p].doc.token)) = 1)

\* A client known by token t1 comes back from another address and is found: its
\* last-seen address has changed, while a profile under a minted token exists
\* beside it.
C31_Witness ==
  /\ ucall["p1"].pc = "gen_session" /\ ucall["p1"].token = "t1" /\ ~ucall["p1"].isNew
  /\ ucall["p1"].ip = <<"j">>
  /\ users[ucall["p1"].id].lastSeenIP = <<"j">>
  /\ Len(users) = 2
  /\ TokensOf(users) \cap MintedTokens # {}

\* C32: whether a profile has a name and whether it has an email are
\* independent, monotone facts.  In every updateUserDetails call the email the
\* call leaves is the one it would leave with any other name argument, and the
\* name the one it would leave with any other email argument; a call without
\* an email leaves the email as it was and a call without a name leaves the
\* name as it was; and a name or an email that is set stays set.
C32_NameEmailIndependentMonotone ==
  [][DetailsCalled =>
       /\ \A name \in NameArgs :
            updateUserDetails(udDoc, udLast'.email, name, udLast'.notes, udDay).email
              = udDoc'.email
       /\ \A email \in EmailArgs :
            updateUserDetails(udDoc, email, udLast'.name, udLast'.notes, udDay).name
              = udDoc'.name
       /\ udLast'.email = << >> => udDoc'.email = udDoc.email
       /\ udLast'.name = << >> => udDoc'.name = udDoc.name
       /\ udDoc.email # << >> => udDoc'.email # << >>
       /\ udDoc.name # << >> => udDoc'.name # << >>]_vars

\* After three calls the profile has an email and a name, the last call having
\* supplied a name and no email.
C32_Witness ==
  /\ udCalls = MaxCalls
  /\ udLast.called /\ udLast.email = << >> /\ udLast.name # << >>
  /\ udDoc.email # << >>
  /\ udDoc.name # << >>

\* The positions of a request inside checkRateLimit.
CheckSteps == {"check", "chk_find", "chk_reset"}

\* The step belongs to checkRateLimit of the request in slot p.
CheckStepOf(p) == req[p].pc \in CheckSteps /\ req'[p] # req[p]

\* The step leaves the counts of record d (e after the step) as they are in every
\* window whose boundary has not passed; a record the step creates counts 0.
CountsKept(d, e) ==
  /\ (d.exists /\ d.dailyResetTime >= now) => e.dailyCount = d.dailyCount
  /\ (d.exists /\ d.hourlyResetTime >= now) => e.hourlyCount = d.hourlyCount
  /\ ~d.exists => e.dailyCount = 0 /\ e.hourlyCount = 0

\* C33: checkRateLimit does not count.  A check leaves every stored dailyCount
\* and hourlyCount as it found it unless the window's boundary has passed, and
\* creates records with counts 0; so check calls alone, inside one window,
\* consume no quota.
C33_CheckConsumesNoQuota ==
  [][\A p \in Procs :
       CheckStepOf(p) =>
         \A k \in AllIds :
           /\ CountsKept(durable[k], durable'[k])
           /\ CountsKept(fallbackStore[k], fallbackStore'[k])]_vars

\* A check called on its own has returned and the address holds the counts, not
\* zero, that it held before the call.
C33_Witness ==
  /\ req["p1"].pc = "done" /\ req["p1"].mode = "check" /\ Checked("p1")
  /\ req["p1"].pre["ip"].dailyCount > 0
  /\ req["p1"].pre["ip"].hourlyCount > 0
  /\ ServingStore(req["p1"])[<<"ip", req["p1"].ip>>].dailyCount
       = req["p1"].pre["ip"].dailyCount
  /\ ServingStore(req["p1"])[<<"ip", req["p1"].ip>>].hourlyCount
       = req["p1"].pre["ip"].hourlyCount

\* The step is a failed store operation of the request in slot p.
StoreFailStepOf(p) ==
  \/ req'[p].failed \ req[p].failed # {}
  \/ req'[p].incFailed \ req[p].incFailed # {}

\* The counts of the records the check of r evaluated.
SeenDaily(r) == {r.seen[j].dailyCount : j \in 1..Len(r.seen)}
SeenHourly(r) == {r.seen[j].hourlyCount : j \in 1..Len(r.seen)}

\* The positions of the identifiers incrementCount of r counted.
Counted(r) == (1..Len(IdsOf(r))) \ r.incFailed

\* C34: a store operation that fails for one identifier causes neither a
\* denial nor an error.  The failing step itself denies nothing; the check
\* allows exactly when no identifier it could evaluate is at a limit, having
\* evaluated every identifier whose operations succeeded, and reports the
\* highest counts among those; the record counts exactly the identifiers whose
\* increment succeeded and reports the highest of their counts; and the
\* request is answered 429 only on such a denial and 200 otherwise.
C34_StoreFailureFailsOpen ==
  /\ [][\A p \in Procs :
          StoreFailStepOf(p) =>
            /\ req'[p].exceededIdentifier = "none"
            /\ req'[p].status = 0
            /\ req'[p].pc \in {"chk_find", "inc_find", "record", "lookup"}]_vars
  /\ [](\A p \in Procs :
          LET r == req[p]
          IN  /\ Checked(p) =>
                   /\ r.chk.allowed <=> \A j \in 1..Len(r.seen) : LimitOf(r.seen[j]) = "none"
                   /\ r.chk.allowed => Len(r.seen) + Cardinality(r.failed) = Len(IdsOf(r))
                   /\ ~r.chk.allowed => PosOf(r, r.chk.exceededBy) \notin r.failed
                   /\ r.chk.dailyCount = MaxOf(SeenDaily(r) \cup {0})
                   /\ r.chk.hourlyCount = MaxOf(SeenHourly(r) \cup {0})
              /\ Recorded(p) =>
                   /\ \A i \in 1..Len(IdsOf(r)) :
                        LET b == r.preInc[IdsOf(r)[i][1]]
                            s == durable[IdsOf(r)[i]]
                            n == IF i \in r.incFailed THEN 0 ELSE 1
                        IN  /\ s.dailyCount = b.dailyCount + n
                            /\ s.hourlyCount = b.hourlyCount + n
                   /\ r.cnt.dailyCount
                        = MaxOf({durable[IdsOf(r)[i]].dailyCount : i \in Counted(r)} \cup {0})
                   /\ r.cnt.hourlyCount
                        = MaxOf({durable[IdsOf(r)[i]].hourlyCount : i \in Counted(r)} \cup {0})
              /\ r.status \in {0, 200, 429}
              /\ r.status = 429 => ~r.chk.allowed)

\* A request from an address at the hourly limit, inside the hour, has been
\* answered 200: the lookup of the address failed, the fingerprint was
\* evaluated and both were counted.
C34_Witness ==
  /\ req["p1"].pc = "done" /\ req["p1"].status = 200
  /\ req["p1"].pre["ip"].hourlyCount >= MAX_MESSAGES_PER_HOUR
  /\ req["p1"].pre["ip"].hourlyResetTime > req["p1"].chkNow
  /\ req["p1"].failed = {1}
  /\ Len(req["p1"].seen) = 1
  /\ req["p1"].incFailed = {}

\* C35: in every rate-limit record of both stores, hourlyCount is at most
\* dailyCount.
C35_HourlyAtMostDaily ==
  \A k \in AllIds :
    /\ durable[k].hourlyCount <= durable[k].dailyCount
    /\ fallbackStore[k].hourlyCount <= fallbackStore[k].dailyCount

\* ---------------------------------------------------------------- getCounts
\* The tier a limiter call made now is served from (ensureDatabaseConnection).
TierNow == IF dbReady THEN "db" ELSE "mem"

\* getCounts: the highest stored counts of the identifiers read with findOne;
\* the counts checkRateLimitFallback returns when the database is not ready.
GetCounts(r) ==
  IF r.tier = "db"
  THEN [dailyCount |-> MaxOf({durable[IdsOf(r)[i]].dailyCount : i \in 1..Len(IdsOf(r))} \cup {0}),
        hourlyCount |-> MaxOf({durable[IdsOf(r)[i]].hourlyCount : i \in 1..Len(IdsOf(r))} \cup {0})]
  ELSE LET c == CheckResult(FallbackCheckFrom([store |-> fallbackStore, r |-> r], IdsOf(r), 1).r)
       IN  [dailyCount |-> c.dailyCount, hourlyCount |-> c.hourlyCount]

\* getRateLimitHeaders: the limits, what is left of them and the next resets.
GetRateLimitHeaders(r) ==
  LET counts == GetCounts(r)
  IN  [dailyLimit |-> MAX_MESSAGES_PER_DAY,
       dailyRemaining |-> Max(0, MAX_MESSAGES_PER_DAY - counts.dailyCount),
       dailyReset |-> Tomorrow(r.t),
       hourlyLimit |-> MAX_MESSAGES_PER_HOUR,
       hourlyRemaining |-> Max(0, MAX_MESSAGES_PER_HOUR - counts.hourlyCount),
       hourlyReset |-> NextHourDurable(r.t)]

\* C36: whenever no request is in flight, getCounts and getRateLimitHeaders
\* report for every request the daily and hourly counts checkRateLimit would
\* report for it at that instant, also after a window boundary, and the
\* remaining values are max(0, limit - count) of those counts.
C36_CountsAgreeWithCheck ==
  (\A p \in Procs : req[p].pc = "idle") =>
    \A ip \in IPs, fp \in OptionalFingerprints :
      LET r == CallOf("check", TierNow, ip, NoKey, fp)
          c == CheckOf(r, IdsOf(r))
          g == GetCounts(r)
          h == GetRateLimitHeaders(r)
      IN  /\ g.dailyCount = c.dailyCount
          /\ g.hourlyCount = c.hourlyCount
          /\ h.dailyRemaining = Max(0, MAX_MESSAGES_PER_DAY - c.dailyCount)
          /\ h.hourlyRemaining = Max(0, MAX_MESSAGES_PER_HOUR - c.hourlyCount)

\* What checkRateLimit returns to the client of the request r when that client
\* comes back at time t and is served by the same store, the records being as
\* they are now.
NextCheck(r, t) ==
  LET n == [CallOf("check", r.chkTier, r.ip, r.userToken, r.fingerprint) EXCEPT !.t = t]
  IN  CheckOf(n, IdsOf(n))

\* C37: a denial is never permanent.  A client answered 429 for the daily or
\* the hourly window that sends nothing until after the reset time reported in
\* that answer is not denied for that window on its next request, whenever
\* within the following day that request comes.
C37_DenialNotPermanent ==
  \A p \in Procs :
    Denied429(p) =>
      \A t \in (DenialResetTime(req[p].chk) + 1)..(DenialResetTime(req[p].chk) + DayLen) :
        NextCheck(req[p], t).reason # req[p].chk.reason

\* A client has been denied for the daily window by the durable store, and
\* coming back after the reported reset time it is allowed.
C37_Witness ==
  /\ Denied429("p1")
  /\ req["p1"].chkTier = "db"
  /\ req["p1"].chk.reason = "daily_limit"
  /\ NextCheck(req["p1"], DenialResetTime(req["p1"].chk) + 1).allowed

\* Sum of messageCount over a list of sessions.
RECURSIVE SumOfCounts(_)
SumOfCounts(sessions) ==
  IF sessions = << >> THEN 0
  ELSE Head(sessions).messageCount + SumOfCounts(Tail(sessions))

\* C38: in every profile totalMessages is the sum of messageCount over the
\* profile's sessions, and the save of an updateSessionActivity for a session
\* id the profile does not hold changes no profile.
C38_TotalIsSumOfSessions ==
  /\ [](\A i \in 1..Len(users) : users[i].totalMessages = SumOfCounts(users[i].sessions))
  /\ [][\A p \in Procs :
          SavesActivity(p) /\ FindSession(users[ucall[p].id], ucall[p].sessionId) = 0
            => users' = users]_vars

\* This step is a connect call whose mongoose.connect rejected.
ConnectFailed == database'.last = "fail" /\ database'.connecting = database.connecting - 1

\* This step is a connect call whose mongoose.connect resolved, or the
\* 'reconnected' event.
ConnectSucceeded ==
  \/ database'.last = "ok" /\ database'.connecting = database.connecting - 1
  \/ database'.last = "reconnected" /\ database' # database

\* C39: reconnectAttempts stays within 0..maxReconnectAttempts whatever the
\* order of connect calls, retry timers and connection events.  A failed
\* connect below the maximum counts one attempt and sets exactly one retry
\* timer, of 2^attempt seconds, and does not reject; a connect call rejects
\* only when it fails with the attempts at the maximum, and then sets no
\* timer; and every successful connect or reconnect sets reconnectAttempts
\* to 0.
C39_ReconnectAttemptsBounded ==
  /\ [](database.reconnectAttempts \in 0..maxReconnectAttempts)
  /\ [][/\ ConnectFailed /\ database.reconnectAttempts < maxReconnectAttempts =>
             /\ database'.reconnectAttempts = database.reconnectAttempts + 1
             /\ database'.timers
                  = database.timers (+) SetToBag({2 ^ database'.reconnectAttempts})
             /\ BagCardinality(database'.timers) = BagCardinality(database.timers) + 1
             /\ database'.rejected = database.rejected
        /\ database'.rejected # database.rejected =>
             /\ ConnectFailed
             /\ database.reconnectAttempts = maxReconnectAttempts
             /\ database'.reconnectAttempts = maxReconnectAttempts
             /\ database'.timers = database.timers
        /\ database'.timers # database.timers /\ ~ConnectFailed =>
             BagCardinality(database'.timers) = BagCardinality(database.timers) - 1
        /\ ConnectSucceeded => database'.reconnectAttempts = 0]_vars

\* The fifth connect in a row has failed and its retry, set for 32 seconds
\* later, has failed as well: that connect call rejected.
C39_Witness ==
  /\ database.reconnectAttempts = maxReconnectAttempts
  /\ database.rejected = 1
  /\ database.last = "fail"
  /\ database.timers = EmptyBag

====
